---- MODULE Spec2Model ----
(***************************************************************************)
(* Command/event dispatch core of the Nano IRC bot: the tier ladder of     *)
(* IRCCommander.execute, the event broadcaster IRCCommander.event, and the *)
(* reply router Postmaster.deliver, driven by NanoIRC._handle_message.     *)
(*                                                                         *)
(* A text (str) is a sequence of words; "" is the empty sequence.  A reply *)
(* is a record [type, tag, text, items]: None, a bare str, a 2-tuple       *)
(* (tag, text) or a list of replies.                                       *)
(***************************************************************************)
EXTENDS Integers, Sequences, FiniteSets, TLC

\* ------------------------------------------------------------------ bounds
NumThreads == 2          \* dispatch threads alive at the same time
MaxListLen == 2          \* longest reply list a handler returns
MaxSessions == 1         \* rows the UserSession table holds at most
MaxAuthRows == 2         \* rows the UserSession table holds at most while Auth calls race
MaxLogged == 2           \* command strings filter_command_string is given
MaxTokens == 3           \* tokens of a command string given to the parser
MaxBindings == 2         \* commands that call bind_whois_event
MaxIgnoreRows == 3       \* the highest id of a row of the ignore table
MaxWhoisLines == 2       \* whoisuser lines the server sends for one WHOIS

Threads    == 1..NumThreads
MainThread == 1

\* ------------------------------------------------------------ reply values
NoneReply     == [type |-> "none",  tag |-> "",  text |-> <<>>, items |-> <<>>]
StrReply(s)   == [type |-> "str",   tag |-> "",  text |-> s,    items |-> <<>>]
TupReply(d,s) == [type |-> "tuple", tag |-> d,   text |-> s,    items |-> <<>>]
ListReply(l)  == [type |-> "list",  tag |-> "",  text |-> <<>>, items |-> l]

\* Python truth value of a reply (`if response:`)
Truthy(r) ==
    CASE r.type = "none"  -> FALSE
      [] r.type = "str"   -> r.text # <<>>
      [] r.type = "tuple" -> TRUE
      [] r.type = "list"  -> r.items # <<>>

\* ---------------------------------------------------- Postmaster constants
PRIVATE        == "private"
PRIVATE_NOTICE == "private_notice"
PRIVATE_ACTION == "private_action"
PUBLIC         == "public"
PUBLIC_NOTICE  == "public_notice"
PUBLIC_ACTION  == "public_action"
\* Postmaster.ACTION (ACTION is a reserved word of TLA+)
ACTION_        == "action"
COMMAND        == "command"

\* the destinations CommandError falls back to; no Postmaster tag has this name
PUBLIC_MESSAGE  == "public_message"
PRIVATE_MESSAGE == "private_message"

Tags == {PRIVATE, PRIVATE_NOTICE, PRIVATE_ACTION, PUBLIC, PUBLIC_NOTICE,
         PUBLIC_ACTION, ACTION_, COMMAND, PUBLIC_MESSAGE}

\* the three bound methods of irc.connection
Primitives == {"privmsg", "notice", "action"}

\* ------------------------------------------------------------- the callers
ChannelName == "#nano"
\* the nick the bot is connected with: what connection.get_nickname() returns
Nickname == "nano"
Sources == {[nick |-> "alice", host |-> "h1"], [nick |-> "bob", host |-> "h2"]}

\* -------------------------------------------------------------------- text
TRIGGER == ">>>"
IRC_BOLD == "^B"

\* MessageParser.html_to_irc, word by word: markup becomes a control code and
\* entities are un-escaped
html_to_irc_word(w) ==
    CASE w = "<strong>"  -> IRC_BOLD
      [] w = "</strong>" -> IRC_BOLD
      [] w = "&amp;"     -> "&"
      [] w = "&#10;"     -> "\n"
      [] OTHER           -> w

html_to_irc(message) == [i \in 1..Len(message) |-> html_to_irc_word(message[i])]

\* the line boundaries str.splitlines() splits at, among the words that occur
LineBreaks == {"\n", "\r"}

\* ''.join(message.splitlines()): line breaks are dropped
RECURSIVE splitlines_join(_)
splitlines_join(message) ==
    IF message = <<>> THEN <<>>
    ELSE IF Head(message) \in LineBreaks THEN splitlines_join(Tail(message))
         ELSE <<Head(message)>> \o splitlines_join(Tail(message))

\* str(response) of a response that is not a tuple
str(response) ==
    CASE response.type = "str"  -> response.text
      [] response.type = "none" -> <<"None">>
      [] response.type = "list" -> <<"[...]">>
      [] OTHER                  -> response.text

\* a _parse_response_message that drops the line breaks before it formats
_parse_response_message_early(response) ==
    LET message == IF response.type = "tuple" THEN response.text ELSE str(response)
    IN  html_to_irc(splitlines_join(message))

\* Postmaster._parse_response_message
_parse_response_message(response) ==
    LET message == IF response.type = "tuple" THEN response.text ELSE str(response)
    IN  splitlines_join(html_to_irc(message))

\* a _get_handler that hands every response to privmsg
_get_handler_privmsg(response) == "privmsg"

\* Postmaster._get_handler
_get_handler(response) ==
    IF response.type # "tuple" THEN "privmsg"
    ELSE IF response.tag \in {PRIVATE, PUBLIC} THEN "privmsg"
    ELSE IF response.tag \in {PRIVATE_NOTICE, PUBLIC_NOTICE} THEN "notice"
    ELSE IF response.tag \in {PRIVATE_ACTION, PUBLIC_ACTION, ACTION_} THEN "action"
    ELSE "privmsg"

\* a _get_destination that looks at the public flag only
_get_destination_default(response, source, channel, public) ==
    IF response.type = "tuple" /\ response.tag = COMMAND THEN COMMAND
    ELSE IF ~public THEN source.nick ELSE channel

\* Postmaster._get_destination
_get_destination(response, source, channel, public) ==
    LET default_destination == IF ~public THEN source.nick ELSE channel
    IN  IF response.type # "tuple" THEN default_destination
        ELSE IF response.tag = ACTION_ THEN default_destination
        ELSE IF response.tag = COMMAND THEN COMMAND
        ELSE IF response.tag \in {PRIVATE, PRIVATE_NOTICE, PRIVATE_ACTION} THEN source.nick
        ELSE IF response.tag \in {PUBLIC, PUBLIC_NOTICE, PUBLIC_ACTION} THEN channel
        ELSE default_destination

\* --------------------------------------------------------- plugin registry
admin_prefix  == "admin_command_"
user_prefix   == "user_command_"
public_prefix == "command_"
Prefixes == {admin_prefix, user_prefix, public_prefix}

EVENT_PUBMSG     == "on_public_message"
EVENT_PRIVMSG    == "on_private_message"
EVENT_PUBNOTICE  == "on_public_notice"
EVENT_PRIVNOTICE == "on_private_notice"
EVENT_QUIT       == "on_quit"
EVENT_PUBACTION  == "on_public_action"
EVENT_PRIVACTION == "on_private_action"
EventNames == {EVENT_PUBMSG, EVENT_PRIVMSG, EVENT_PUBNOTICE, EVENT_PRIVNOTICE,
               EVENT_PUBACTION, EVENT_PRIVACTION}

\* plugins.all().items(): the loaded plugins in dictionary order
PluginOrder == <<"p", "q">>
PluginNames == {PluginOrder[i] : i \in 1..Len(PluginOrder)}

\* A loaded Plugin: the attribute names of its irc Commands instance and of
\* its irc Events instance ("absent" when the module has no such class)
NoClass == {"absent"}
CommandClasses == {ms \cup {"__init__"} : ms \in SUBSET {admin_prefix \o "x", user_prefix \o "x", public_prefix \o "x"}}
EventClasses   == {NoClass, {"__init__"}, EventNames \cup {"__init__"}}

\* PluginManager.is_loaded
is_loaded(registry, name) == name \in DOMAIN registry

\* Plugin.get_command: the bound method's attribute name, or "None"
get_command(plugin, command_name, command_prefix) ==
    IF plugin.command_classes = NoClass THEN "None"
    ELSE IF command_name # "None" /\ (command_prefix \o command_name) \in plugin.command_classes
         THEN command_prefix \o command_name
         ELSE "None"

\* Plugin.has_events
has_events(plugin) == plugin.event_classes # NoClass

\* Plugin.get_event
get_event(plugin, event_name) ==
    IF plugin.event_classes = NoClass THEN "None"
    ELSE IF event_name \in plugin.event_classes THEN event_name ELSE "None"

\* ------------------------------------------------------------------- Auth
NetworkId == 1
\* the users table: id -> is_admin
Users == [u \in {1, 2} |-> [id |-> u, is_admin |-> (u = 1)]]
Hosts == {s.host : s \in Sources}

RECURSIVE session_filter(_, _, _)
\* the rows of a UserSession query filtered by network_id and hostmask
session_filter(rows, network, hostmask) ==
    IF rows = <<>> THEN <<>>
    ELSE LET rest == session_filter(Tail(rows), network, hostmask)
         IN  IF Head(rows).network_id = network /\ Head(rows).hostmask = hostmask
             THEN <<Head(rows)>> \o rest ELSE rest

\* AuthSession.exists
session_exists(rows, network, hostmask) == Len(session_filter(rows, network, hostmask)) # 0

\* the value standing for Python's None where a session row is expected
NoSession == [user_id |-> 0, network_id |-> 0, hostmask |-> "None"]

\* AuthSession.get: query.first()
session_get(rows, network, hostmask) ==
    LET found == session_filter(rows, network, hostmask)
    IN  IF found = <<>> THEN NoSession ELSE Head(found)

\* AuthSession.create
session_create(rows, user, network, hostmask) ==
    Append(rows, [user_id |-> user, network_id |-> network, hostmask |-> hostmask])

\* AuthSession.destroy: every query.filter(...) result is discarded, so
\* query.delete() runs on the unfiltered query
session_destroy(rows, network, hostmask) == <<>>

\* Auth.check
auth_check(rows, hostmask, network) == session_exists(rows, network, hostmask)

\* Auth.user: the User row of the session; raises NotAuthenticatedError
\* when there is no session
auth_user(rows, hostmask, network) ==
    LET user_session == session_get(rows, network, hostmask)
    IN  IF user_session = NoSession
        THEN [raised |-> "NotAuthenticatedError", user |-> [id |-> 0, is_admin |-> FALSE]]
        ELSE [raised |-> "", user |-> Users[user_session.user_id]]

\* an attempt that lets a caller with a session through
attempt_guard_off(exists) == ""

\* Auth.attempt: `if self.session.exists(network, hostmask): raise AlreadyAuthenticatedError`
attempt_guard(exists) == IF exists THEN "AlreadyAuthenticatedError" ELSE ""

\* ----------------------------------------------------------------- parser
\* str.lower() on the words that occur
Lower(w) ==
    CASE w = "HELP" -> "help"
      [] w = "P"    -> "p"
      [] w = "Bob"  -> "bob"
      [] w = "-V"   -> "-v"
      [] w = "V"    -> "v"
      [] w = "--n=V" -> "--n=v"
      [] OTHER      -> w

\* short_opt_pattern ^\-([a-zA-Z])$ : group(1), or "None"
short_opt_match(arg) ==
    CASE arg = "-v" -> "v"
      [] arg = "-V" -> "V"
      [] OTHER      -> "None"

\* long_opt_pattern ^\-\-([a-zA-Z]*)="?(.+)"?$ : <<group(1), group(2)>>, or <<>>
long_opt_match(arg) ==
    CASE arg = "--n=V" -> <<"n", "V">>
      [] arg = "--v=a" -> <<"v", "a">>
      [] OTHER         -> <<>>

\* trigger_pattern ^>>>( )?[a-zA-Z]+ : the text starts with the trigger and a
\* word that starts with a letter
IsAlphaWord(w) == w \notin {TRIGGER, "-v", "-V", "-vv", "--n=V", "--v=a", "\n", "\r", "&#10;", "&amp;", "<strong>", "</strong>"}
trigger_pattern_match(text) == Len(text) >= 2 /\ text[1] = TRIGGER /\ IsAlphaWord(text[2])

\* command_string.lstrip(">>>").strip() then shlex.split
RECURSIVE lstrip_trigger(_)
lstrip_trigger(text) ==
    IF text # <<>> /\ Head(text) = TRIGGER THEN lstrip_trigger(Tail(text)) ELSE text

\* an opts dictionary that keeps the value an option was first given
set_opt_first(opts, opt, value) ==
    IF \E o \in opts : o[1] = opt THEN opts ELSE opts \cup {<<opt, value>>}

\* opts[opt] = value
set_opt(opts, opt, value) == {o \in opts : o[1] # opt} \cup {<<opt, value>>}

RECURSIVE parse_loop(_, _, _)
\* Commander._parse_command_string, the loop over the shlex tokens
parse_loop(command_args, parsed_args, opts) ==
    IF command_args = <<>> THEN [args |-> parsed_args, opts |-> opts]
    ELSE LET arg  == Head(command_args)
             rest == Tail(command_args)
         IN  IF short_opt_match(arg) # "None"
             THEN LET opt == Lower(short_opt_match(arg))
                  IN  parse_loop(rest, parsed_args, set_opt(opts, opt, "True"))
             ELSE IF long_opt_match(arg) # <<>>
             THEN LET opt   == Lower(long_opt_match(arg)[1])
                      value == Lower(long_opt_match(arg)[2])
                  IN  parse_loop(rest, parsed_args, set_opt(opts, opt, value))
             ELSE parse_loop(rest, Append(parsed_args, arg), opts)

\* Commander._parse_command_string
_parse_command_string(command_string) == parse_loop(lstrip_trigger(command_string), <<>>, {})

\* a parser that falls back to plugin p when no plugin is named
_parse_command_arguments_fallback(registry, args) ==
    [raised |-> "", plugin |-> "p", command |-> "x", args |-> <<>>, help_command |-> FALSE]

\* Commander._parse_command_arguments
_parse_command_arguments(registry, args) ==
    LET args_lower   == [i \in 1..Len(args) |-> Lower(args[i])]
        help_command == Len(args) > 0 /\ args_lower[1] = "help"
        lower1       == IF help_command THEN Tail(args_lower) ELSE args_lower
        args1        == IF help_command THEN Tail(args) ELSE args
        args_len     == Len(lower1)
        match1       == args_len > 0 /\ is_loaded(registry, lower1[1])
        args2        == IF match1 THEN Tail(args1) ELSE args1
        subplugin    == IF args_len >= 2 THEN lower1[1] \o "." \o lower1[2] ELSE "None"
        match2       == args_len >= 2 /\ is_loaded(registry, subplugin)
        args3        == IF match2 THEN Tail(args2) ELSE args2
        plugin       == IF match2 THEN subplugin ELSE IF match1 THEN lower1[1] ELSE "None"
    IN  IF plugin = "None"
        THEN [raised |-> "PluginNotLoadedError", plugin |-> "None", command |-> "None",
              args |-> args3, help_command |-> help_command]
        ELSE [raised |-> "", plugin |-> plugin,
              command |-> IF Len(args3) > 0 THEN Head(args3) ELSE "None",
              args |-> IF Len(args3) > 0 THEN Tail(args3) ELSE args3,
              help_command |-> help_command]

\* a help resolver that has nothing to say
_help_execute_silent(registry, plugin, command) == NoneReply

\* a resolver that has no default message
help_not_found_none(command) == NoneReply

\* Commander._help_execute, its last return: the default message
help_not_found(command) == StrReply(<<"no", "help", "entry", "for", command>>)

\* Commander._help_execute
_help_execute(registry, plugin, command) ==
    LET commands_help == IF is_loaded(registry, plugin) THEN registry[plugin].commands_help ELSE {}
    IN  IF commands_help # {}
        THEN IF command = "None" /\ "main" \in commands_help THEN StrReply(<<"help", "main">>)
             ELSE IF command # "None" /\ command \in commands_help THEN StrReply(<<"help", command>>)
             ELSE help_not_found(command)
        ELSE StrReply(<<"no", "help", "entries", "for", plugin>>)

\* ------------------------------------------------- handlers and exceptions
\* What a plugin handler does when invoked: it returns a reply or raises.
\* destination is the destination argument given to the exception ("None"
\* when the handler leaves it out).
Return(r)   == [kind |-> "return", reply |-> r, name |-> "", destination |-> ""]
Raise(n, d) == [kind |-> "raise", reply |-> NoneReply, name |-> n, destination |-> d]

CommandErrors == {"NotEnoughArgumentsError", "TooManyArgumentsError",
                  "InvalidSyntaxError", "PermissionDeniedError"}

NoExc == [name |-> "", destination |-> "", error_message |-> <<>>]

\* CommandError.__init__ / ValidationError.__init__ : the exception object a
\* handler raises for a Command with the given public flag
exception(o, public) ==
    IF o.name \in CommandErrors
    THEN [name |-> o.name,
          destination |-> IF o.destination = "None"
                          THEN (IF public THEN PUBLIC_MESSAGE ELSE PRIVATE_MESSAGE)
                          ELSE o.destination,
          error_message |-> <<"error", o.name>>]
    ELSE IF o.name = "ValidationError"
    THEN [name |-> o.name, destination |-> "", error_message |-> <<"Invalid", "input", "provided.">>]
    ELSE [name |-> o.name, destination |-> "", error_message |-> <<>>]

CommandReplyText == <<TRIGGER, "p", "x">>

ListElems == {StrReply(<<"a">>), TupReply(PRIVATE_NOTICE, <<"b">>), TupReply(COMMAND, CommandReplyText)}

SeqsUpTo(S, n) == UNION {[1..k -> S] : k \in 1..n}

HandlerReplies ==
    {NoneReply, StrReply(<<>>), StrReply(<<"a">>), StrReply(<<"<strong>", "b", "\n", "&#10;", "\r">>)}
    \cup {TupReply(tag, IF tag = COMMAND THEN CommandReplyText ELSE <<"a">>) : tag \in Tags}
    \cup {ListReply(l) : l \in SeqsUpTo(ListElems, MaxListLen)}

HandlerRaises ==
    {Raise(n, "None") : n \in CommandErrors \cup {"ValidationError", "Exception"}}
    \cup {Raise("PermissionDeniedError", PRIVATE_NOTICE)}

HandlerOutcomes == {Return(r) : r \in HandlerReplies} \cup HandlerRaises

EventOutcomes ==
    {Return(r) : r \in {NoneReply, StrReply(<<>>), StrReply(<<"a">>), TupReply(PRIVATE_NOTICE, <<"b">>),
                        ListReply(<<StrReply(<<"a">>), TupReply(PRIVATE_NOTICE, <<"b">>)>>)}}
    \cup {Raise(n, "None") : n \in {"InvalidSyntaxError", "ValidationError", "Exception"}}

\* the language engine answers with any reply, or with nothing
LangReplies == {NoneReply, StrReply(<<"a">>), TupReply(ACTION_, <<"a">>),
                ListReply(<<StrReply(<<"a">>), TupReply(COMMAND, CommandReplyText), StrReply(<<"b">>)>>)}

InboundTexts == {<<TRIGGER, "P", "x", "-V", "arg">>, <<TRIGGER, "HELP", "p", "x">>,
                 <<TRIGGER, "zz", "x">>, <<TRIGGER, "p">>, <<TRIGGER, "HELP">>, <<"hello">>}

\* ------------------------------------------------------------------- state
VARIABLES
    plugins,    \* PluginManager.plugins: name -> loaded Plugin
    sessions,   \* the rows of the UserSession table, in insertion order
    pc,         \* where each dispatch thread is
    req,        \* the inbound event each thread handles
    exec,       \* each thread's current / last execute() call
    evt,        \* each thread's last event() call
    frames,     \* each thread's stack of deliver() calls: responses and loop index
    calls,      \* the responses of each thread's outermost deliver() call
    ctx,        \* source and public flag each thread's deliver() calls run with
    route,      \* the last loop iteration of deliver(): response, handler, destination
    fired,      \* the execute() call of each thread's last _fire_command
    wire,       \* what was handed to the wire primitives, in order
    auth,       \* each thread's current / last call of Auth.attempt, login or logout
    logged,     \* the command strings filter_command_string was given, with its results
    parsing,    \* the last command string given to the parser, with what the parser made of it
    whois,      \* WHOIS bindings: global handlers, server events in flight, buffers, callback calls
    ignore_list, \* IgnoreList._ignore_list: the ignored hosts and nicks
    lang,       \* each thread's query of the language engine
    quits       \* the quit events received and the thread objects built for them

vars == <<plugins, sessions, pc, req, exec, evt, frames, calls, ctx, route, fired, wire, auth, logged, parsing, whois, ignore_list, lang, quits>>

NoSource == [nick |-> "", host |-> ""]
NoReq  == [text |-> <<>>, source |-> NoSource, public |-> FALSE, command_event |-> "None", target |-> ""]
NoExec == [status |-> "none", caller |-> "", command_string |-> <<>>, source |-> NoSource,
           public |-> FALSE, plugin |-> "None", command |-> "None", authed |-> FALSE,
           is_admin |-> FALSE, todo |-> <<>>, invoked |-> <<>>, returned |-> <<>>,
           result |-> NoneReply, exc |-> NoExc, args |-> <<>>, gate |-> FALSE]
NoEvt  == [status |-> "none", event_name |-> "None", invoked |-> <<>>, outs |-> <<>>, replies |-> <<>>]
NoRoute == [response |-> NoneReply, source |-> NoSource, public |-> FALSE,
            handler |-> "", destination |-> "", message |-> <<>>]
NoCtx  == [source |-> NoSource, public |-> FALSE]
NoParse == [status |-> "none", tokens |-> <<>>, command_string |-> <<>>, split |-> <<>>,
            raised |-> "", args |-> <<>>, opts |-> {}, plugin |-> "None", command |-> "None",
            rest |-> <<>>, help_command |-> FALSE, help |-> NoneReply]
Commands == 1..MaxBindings
NoWhois == [handlers |-> <<>>, inflight |-> <<>>, bound |-> {},
            targets |-> [c \in Commands |-> ""],
            buffer |-> [c \in Commands |-> <<>>], called |-> [c \in Commands |-> <<>>]]
NoIgnore == [hosts |-> {}, nicks |-> {}, db |-> {}]
NoQuits == [received |-> {}, threads |-> {}]
NoLang == [status |-> "none", host |-> "", text |-> <<>>, reply |-> NoneReply]
NoAuth == [op |-> "none", at |-> "idle", user |-> 0, hostmask |-> "", valid |-> FALSE,
           existed |-> FALSE, credentials |-> FALSE, wrote |-> FALSE, raised |-> ""]

AllCommands == {admin_prefix \o "x", user_prefix \o "x", public_prefix \o "x", "__init__"}
AllEvents   == EventNames \cup {"__init__"}

Registry(cc, e1, e2) ==
    [n \in PluginNames |->
        IF n = "p" THEN [command_classes |-> cc, event_classes |-> e1, commands_help |-> {"main", "x"}]
                   ELSE [command_classes |-> NoClass, event_classes |-> e2, commands_help |-> {}]]

\* the registries the bot is started with: every choice of command tiers,
\* and every choice of event classes
Registries ==
    {Registry(cc, AllEvents, AllEvents) : cc \in CommandClasses}
    \cup {Registry(AllCommands, e1, e2) : e1 \in EventClasses, e2 \in {NoClass, AllEvents}}

\* nothing has been received yet: no session, no thread, nothing on the wire
Fresh ==
    /\ sessions = <<>>
    /\ pc = [t \in Threads |-> "idle"]
    /\ req = [t \in Threads |-> NoReq]
    /\ exec = [t \in Threads |-> NoExec]
    /\ evt = [t \in Threads |-> NoEvt]
    /\ frames = [t \in Threads |-> <<>>]
    /\ calls = [t \in Threads |-> <<>>]
    /\ ctx = [t \in Threads |-> NoCtx]
    /\ route = [t \in Threads |-> NoRoute]
    /\ fired = [t \in Threads |-> NoExec]
    /\ wire = <<>>
    /\ auth = [t \in Threads |-> NoAuth]
    /\ logged = {}
    /\ parsing = NoParse
    /\ whois = NoWhois
    /\ ignore_list = NoIgnore
    /\ lang = [t \in Threads |-> NoLang]
    /\ quits = NoQuits

Init ==
    /\ plugins \in Registries
    /\ Fresh

\* ---------------------------------------------------------------- execute
\* a ladder that tries the user tier before the admin tier
TierOrder_user_first == <<user_prefix, admin_prefix, public_prefix>>

\* IRCCommander.execute: the order its three _execute calls are written in
TierOrder == <<admin_prefix, user_prefix, public_prefix>>

\* a gate that lets every caller into every tier
tier_open_any(command_prefix, authed, is_admin) == TRUE

\* IRCCommander.execute: `if self.auth.check(...)` around the admin and the
\* user tier, `if user.is_admin` around the admin tier
tier_open(command_prefix, authed, is_admin) ==
    CASE command_prefix = admin_prefix  -> authed /\ is_admin
      [] command_prefix = user_prefix   -> authed
      [] command_prefix = public_prefix -> TRUE

\* IRCCommander.execute: the tiers an execute() call tries, in order
Ladder(authed, is_admin) ==
    SelectSeq(TierOrder, LAMBDA command_prefix : tier_open(command_prefix, authed, is_admin))

\* a ladder that goes through every tier whatever the handlers return
ladder_returns_last(command_prefix, response) == command_prefix = public_prefix

\* IRCCommander.execute: `if response: return response` after the admin and
\* the user tier, an unconditional return after the public tier
ladder_returns(command_prefix, response) ==
    command_prefix = public_prefix \/ Truthy(response)

\* IRCCommander.execute up to its first handler invocation: kwargs lookup,
\* parsing, the help short-circuit and the authentication gate
execute_begin(registry, rows, command_string, source, public, kwargs, caller) ==
    LET base   == [NoExec EXCEPT !.caller = caller, !.command_string = command_string,
                                 !.source = source, !.public = public]
        parsed == _parse_command_arguments(registry, _parse_command_string(command_string).args)
        authed == auth_check(rows, source.host, NetworkId)
        user   == auth_user(rows, source.host, NetworkId)
    IN  IF ~({"source", "public", "event"} \subseteq kwargs)
        THEN [base EXCEPT !.status = "raised", !.exc = [NoExc EXCEPT !.name = "KeyError"]]
        ELSE IF parsed.raised = "PluginNotLoadedError"
        THEN [base EXCEPT !.status = "returned", !.result = NoneReply]
        ELSE IF parsed.help_command
        THEN [base EXCEPT !.status = "returned", !.plugin = parsed.plugin, !.command = parsed.command,
                          !.args = parsed.args,
                          !.result = _help_execute(registry, parsed.plugin, parsed.command)]
        ELSE IF authed /\ user.raised # ""
        THEN [base EXCEPT !.status = "raised", !.plugin = parsed.plugin, !.command = parsed.command,
                          !.args = parsed.args, !.gate = TRUE,
                          !.authed = TRUE, !.exc = [NoExc EXCEPT !.name = user.raised]]
        ELSE [base EXCEPT !.status = "running", !.plugin = parsed.plugin, !.command = parsed.command,
                          !.args = parsed.args, !.gate = TRUE,
                          !.authed = authed, !.is_admin = authed /\ user.user.is_admin,
                          !.todo = Ladder(authed, authed /\ user.user.is_admin)]

\* Commander._execute for the tier at the head of the ladder, the handler
\* (when there is one) doing o: the execute() call after that tier
_execute(registry, e, o) ==
    LET command_prefix == Head(e.todo)
        method == IF is_loaded(registry, e.plugin)
                  THEN get_command(registry[e.plugin], e.command, command_prefix)
                  ELSE "None"
        called == [e EXCEPT !.invoked = Append(@, command_prefix), !.returned = Append(@, o)]
    IN  IF method = "None"
        THEN IF ladder_returns(command_prefix, NoneReply)
             THEN [e EXCEPT !.status = "returned", !.result = NoneReply, !.todo = <<>>]
             ELSE [e EXCEPT !.todo = Tail(@)]
        ELSE IF o.kind = "raise"
        THEN [called EXCEPT !.status = "raised", !.exc = exception(o, e.public), !.todo = <<>>]
        ELSE IF ladder_returns(command_prefix, o.reply)
        THEN [called EXCEPT !.status = "returned", !.result = o.reply, !.todo = <<>>]
        ELSE [called EXCEPT !.todo = Tail(@)]

\* whether the tier at the head of the ladder resolves to a handler
resolves(registry, e) ==
    /\ is_loaded(registry, e.plugin)
    /\ get_command(registry[e.plugin], e.command, Head(e.todo)) # "None"

\* ---------------------------------------------------------------- deliver
\* Postmaster.deliver: `if not isinstance(responses, list): responses = [responses]`
Normalize(responses) == IF responses.type = "list" THEN responses.items ELSE <<responses>>

Frame(responses) == [responses |-> Normalize(responses), i |-> 1]

\* a loop that walks the list from its end
next_response_reversed(frame) == frame.responses[Len(frame.responses) - frame.i + 1]

\* the response the loop of the innermost deliver() call is at
next_response(frame) == frame.responses[frame.i]

\* the loop indexes of the deliver() calls on the stack, outermost first
Path(stack) == [k \in 1..Len(stack) |-> stack[k].i]

RECURSIVE Advance(_)
\* the loop moves on; a deliver() call whose list is exhausted returns to the
\* _fire_command that called it, which returns to its own loop
Advance(stack) ==
    IF stack = <<>> THEN <<>>
    ELSE LET top == stack[Len(stack)]
         IN  IF top.i < Len(top.responses)
             THEN [stack EXCEPT ![Len(stack)].i = top.i + 1]
             ELSE Advance(SubSeq(stack, 1, Len(stack) - 1))

\* a _fire_command whose failure ends the deliver() calls above it
fire_command_resume_abort(stack, e) == <<>>

\* Postmaster._fire_command after execute() came back: an exception is
\* caught and dropped, a truthy reply is delivered
fire_command_resume(stack, e) ==
    IF e.status = "returned" /\ Truthy(e.result)
    THEN Append(stack, Frame(e.result))
    ELSE Advance(stack)

DeliverPc(stack) == IF stack = <<>> THEN "done" ELSE "deliver"

\* NanoIRC._handle_message after the replies are in: deliver them, or fire
\* the plugin event when there are none
handle_replies(t, replies) ==
    IF Truthy(replies)
    THEN /\ pc' = [pc EXCEPT ![t] = "deliver"]
         /\ frames' = [frames EXCEPT ![t] = <<Frame(replies)>>]
         /\ calls' = [calls EXCEPT ![t] = Normalize(replies)]
         /\ ctx' = [ctx EXCEPT ![t] = [source |-> req[t].source, public |-> req[t].public]]
    ELSE /\ pc' = [pc EXCEPT ![t] = IF req[t].command_event # "None" THEN "event" ELSE "done"]
         /\ UNCHANGED <<frames, calls, ctx>>

\* where a finished execute() call leaves thread t: back in _fire_command, or
\* back in _handle_message, which has no except clause
AfterExecute(t, e) ==
    IF e.caller = "_fire_command"
    THEN /\ frames' = [frames EXCEPT ![t] = fire_command_resume(@, e)]
         /\ pc' = [pc EXCEPT ![t] = DeliverPc(frames'[t])]
         /\ fired' = [fired EXCEPT ![t] = e]
         /\ UNCHANGED <<calls, ctx>>
    ELSE /\ fired' = fired
         /\ IF e.status = "raised"
            THEN /\ pc' = [pc EXCEPT ![t] = "crashed"]
                 /\ UNCHANGED <<frames, calls, ctx>>
            ELSE handle_replies(t, e.result)

\* ---------------------------------------------------------------- actions
\* NanoIRC.on_public_message / on_private_message: a thread is started on
\* _handle_message for the event
Receive(t, texts, sources) ==
    /\ pc[t] = "idle"
    /\ \E text \in texts, source \in sources, public \in BOOLEAN :
          req' = [req EXCEPT ![t] = [text |-> text, source |-> source, public |-> public,
                                     command_event |-> IF public THEN EVENT_PUBMSG ELSE EVENT_PRIVMSG,
                                     target |-> IF public THEN ChannelName ELSE Nickname]]
    /\ pc' = [pc EXCEPT ![t] = "handle"]
    /\ UNCHANGED <<plugins, sessions, exec, evt, frames, calls, ctx, route, fired, wire, auth, logged, parsing, whois, ignore_list, lang, quits>>

on_message(t) == Receive(t, InboundTexts, Sources)

\* NanoIRC.on_public_notice / on_private_notice: a thread is started on
\* _fire_plugin_event
on_notice(t) ==
    /\ pc[t] = "idle"
    /\ \E text \in {<<"hello">>, <<TRIGGER, "p", "x">>}, source \in Sources, public \in BOOLEAN :
          req' = [req EXCEPT ![t] = [text |-> text, source |-> source, public |-> public,
                                     command_event |-> IF public THEN EVENT_PUBNOTICE ELSE EVENT_PRIVNOTICE,
                                     target |-> IF public THEN ChannelName ELSE Nickname]]
    /\ pc' = [pc EXCEPT ![t] = "event"]
    /\ UNCHANGED <<plugins, sessions, exec, evt, frames, calls, ctx, route, fired, wire, auth, logged, parsing, whois, ignore_list, lang, quits>>

\* a Python string, and the bound method connection.get_nickname: an object
\* that is not a string
PyStr(s) == [type |-> "str", value |-> s]
get_nickname == [type |-> "method", value |-> "ServerConnection.get_nickname"]

ActionTexts == {<<"waves">>, <<TRIGGER, "p", "x">>}

\* NanoIRC.on_action: `public = (event.target != connection.get_nickname)`,
\* the event name follows from it, a thread is started on _handle_message
on_action(t) ==
    /\ pc[t] = "idle"
    /\ \E text \in ActionTexts, source \in Sources, target \in {ChannelName, Nickname} :
          LET public == (PyStr(target) # get_nickname)
              command_event == IF public THEN EVENT_PUBACTION ELSE EVENT_PRIVACTION
          IN  req' = [req EXCEPT ![t] = [text |-> text, source |-> source, public |-> public,
                                         command_event |-> command_event, target |-> target]]
    /\ pc' = [pc EXCEPT ![t] = "handle"]
    /\ UNCHANGED <<plugins, sessions, exec, evt, frames, calls, ctx, route, fired, wire, auth, logged, parsing, whois, ignore_list, lang, quits>>

\* NanoIRC.on_quit: a thread object is built for _fire_plugin_event with the
\* quit event; the object is dropped without a call of its start()
on_quit(source) ==
    /\ quits' = [received |-> quits.received \cup {source},
                 threads  |-> quits.threads \cup {[target |-> "_fire_plugin_event", event_name |-> EVENT_QUIT,
                                                  source |-> source, started |-> FALSE]}]
    /\ UNCHANGED <<plugins, sessions, pc, req, exec, evt, frames, calls, ctx, route, fired, wire, auth, logged, parsing, whois, ignore_list, lang>>

\* an ignore list that knows hosts only
ignore_exists_host(list, source) == source.host \in list.hosts

\* IgnoreList.exists
ignore_exists(list, source) == source.host \in list.hosts \/ Lower(source.nick) \in list.nicks

\* a _handle_message that takes no text for a command
command_requested_never(text) == FALSE

\* NanoIRC._handle_message: `if self.commander.trigger_pattern.match(event.arguments[0])`
command_requested(text) == trigger_pattern_match(text)

\* NanoIRC._handle_message: a client on the ignore list gets nothing; a
\* command goes to execute(), which runs up to its first handler invocation;
\* anything else goes to the language engine
HandleMessage(t, lang_replies) ==
    /\ pc[t] = "handle"
    /\ IF ignore_exists(ignore_list, req[t].source)
       THEN /\ pc' = [pc EXCEPT ![t] = "done"]
            /\ UNCHANGED <<exec, fired, frames, calls, ctx, lang>>
       ELSE IF command_requested(req[t].text)
       THEN LET e == execute_begin(plugins, sessions, req[t].text, req[t].source, req[t].public,
                                   {"source", "public", "event"}, "_handle_message")
            IN  /\ exec' = [exec EXCEPT ![t] = e]
                /\ lang' = lang
                /\ IF e.status = "running"
                   THEN /\ pc' = [pc EXCEPT ![t] = "tier"]
                        /\ UNCHANGED <<frames, calls, ctx, fired>>
                   ELSE AfterExecute(t, e)
       ELSE /\ \E replies \in lang_replies :
                  /\ handle_replies(t, replies)
                  /\ lang' = [lang EXCEPT ![t] = [status |-> "asked", host |-> req[t].source.host,
                                                  text |-> req[t].text, reply |-> replies]]
            /\ UNCHANGED <<exec, fired>>
    /\ UNCHANGED <<plugins, sessions, req, evt, route, wire, auth, logged, parsing, whois, ignore_list, quits>>

_handle_message(t) == HandleMessage(t, LangReplies)

\* IRCCommander.execute, one tier of the ladder: _execute resolves the
\* handler and invokes it
execute(t) ==
    /\ pc[t] = "tier"
    /\ \E o \in (IF resolves(plugins, exec[t]) THEN HandlerOutcomes ELSE {Return(NoneReply)}) :
          LET e == _execute(plugins, exec[t], o)
          IN  /\ exec' = [exec EXCEPT ![t] = e]
              /\ IF e.status = "running"
                 THEN UNCHANGED <<pc, frames, calls, ctx, fired>>
                 ELSE AfterExecute(t, e)
    /\ UNCHANGED <<plugins, sessions, req, evt, route, wire, auth, logged, parsing, whois, ignore_list, lang, quits>>

\* a guard that lets every text through
event_guard_open(text) == FALSE

\* IRCCommander.event: `if self.trigger_pattern.match(event.arguments[0]): return`
event_guard(text) == trigger_pattern_match(text)

\* replies put in front of the list instead of appended to it
collect_reversed(mine, rest) == rest \o mine

\* IRCCommander.event: replies.append(event_replies), seen from the plugins
\* the loop has still to go through
collect(mine, rest) == mine \o rest

\* an event handler call without the except clauses
event_try_uncaught(o) ==
    [replies |-> IF o.kind = "return" /\ Truthy(o.reply) THEN <<o.reply>> ELSE <<>>,
     raised  |-> IF o.kind = "raise" THEN o.name ELSE ""]

\* IRCCommander.event, the body of its loop for a handler doing o: the three
\* except clauses `continue`, `if event_replies: replies.append(event_replies)`
event_try(o) ==
    [replies |-> IF o.kind = "return" /\ Truthy(o.reply) THEN <<o.reply>> ELSE <<>>,
     raised  |-> ""]

RECURSIVE event_loop(_, _, _, _)
\* IRCCommander.event, the loop over plugins.all().items(): outs[name] is
\* what the event handler of plugin name does when invoked; an exception that
\* leaves the loop body ends the loop
event_loop(registry, order, event_name, outs) ==
    IF order = <<>> THEN [invoked |-> <<>>, outs |-> <<>>, replies |-> <<>>, raised |-> ""]
    ELSE LET plugin_name == Head(order)
             plugin == registry[plugin_name]
             o      == outs[plugin_name]
             r      == event_try(o)
             rest   == event_loop(registry, Tail(order), event_name, outs)
         IN  IF has_events(plugin) /\ get_event(plugin, event_name) # "None"
             THEN IF r.raised # ""
                  THEN [invoked |-> <<plugin_name>>, outs |-> <<o>>, replies |-> <<>>,
                        raised |-> r.raised]
                  ELSE [invoked |-> <<plugin_name>> \o rest.invoked,
                        outs    |-> <<o>> \o rest.outs,
                        replies |-> collect(r.replies, rest.replies),
                        raised  |-> rest.raised]
             ELSE rest

\* the loaded plugins in iteration order
LoadedOrder(registry) == SelectSeq(PluginOrder, LAMBDA n : is_loaded(registry, n))

\* NanoIRC._fire_plugin_event: IRCCommander.event, then deliver() of its
\* replies with the default public flag
event(t) ==
    /\ pc[t] = "event"
    /\ IF event_guard(req[t].text)
       THEN /\ evt' = [evt EXCEPT ![t] = [NoEvt EXCEPT !.status = "skipped", !.event_name = req[t].command_event]]
            /\ pc' = [pc EXCEPT ![t] = "done"]
            /\ UNCHANGED <<frames, calls, ctx>>
       ELSE \E outs \in [PluginNames -> EventOutcomes] :
              /\ \A n \in PluginNames :
                    (~is_loaded(plugins, n) \/ get_event(plugins[n], req[t].command_event) = "None")
                        => outs[n] = Return(NoneReply)
              /\ LET r == event_loop(plugins, LoadedOrder(plugins), req[t].command_event, outs)
                 IN  /\ evt' = [evt EXCEPT ![t] = [status |-> IF r.raised = "" THEN "returned" ELSE "raised",
                                                   event_name |-> req[t].command_event,
                                                   invoked |-> r.invoked, outs |-> r.outs,
                                                   replies |-> r.replies]]
                     /\ IF r.raised # ""
                        THEN /\ pc' = [pc EXCEPT ![t] = "crashed"]
                             /\ UNCHANGED <<frames, calls, ctx>>
                        ELSE IF r.replies # <<>>
                        THEN /\ pc' = [pc EXCEPT ![t] = "deliver"]
                             /\ frames' = [frames EXCEPT ![t] = <<[responses |-> r.replies, i |-> 1]>>]
                             /\ calls' = [calls EXCEPT ![t] = r.replies]
                             /\ ctx' = [ctx EXCEPT ![t] = [source |-> req[t].source, public |-> TRUE]]
                        ELSE /\ pc' = [pc EXCEPT ![t] = "done"]
                             /\ UNCHANGED <<frames, calls, ctx>>
    /\ UNCHANGED <<plugins, sessions, req, exec, route, fired, wire, auth, logged, parsing, whois, ignore_list, lang, quits>>

\* Postmaster.deliver, one iteration of its loop; a response routed to
\* COMMAND goes through _fire_command, whose execute() call gets only the
\* source and public keyword arguments
deliver(t) ==
    /\ pc[t] = "deliver"
    /\ frames[t] # <<>>
    /\ LET stack       == frames[t]
           response    == next_response(stack[Len(stack)])
           handler     == _get_handler(response)
           destination == _get_destination(response, ctx[t].source, ChannelName, ctx[t].public)
           message     == _parse_response_message(response)
       IN  /\ route' = [route EXCEPT ![t] = [response |-> response, source |-> ctx[t].source,
                                            public |-> ctx[t].public, handler |-> handler,
                                            destination |-> destination, message |-> message]]
           /\ IF destination = COMMAND
              THEN LET e == execute_begin(plugins, sessions, message, ctx[t].source, ctx[t].public,
                                          {"source", "public"}, "_fire_command")
                   IN  /\ wire' = wire
                       /\ IF e.status = "running"
                          THEN /\ exec' = [exec EXCEPT ![t] = e]
                               /\ fired' = [fired EXCEPT ![t] = e]
                               /\ pc' = [pc EXCEPT ![t] = "tier"]
                               /\ UNCHANGED <<frames, calls, ctx>>
                          ELSE /\ exec' = exec
                               /\ AfterExecute(t, e)
              ELSE /\ wire' = Append(wire, [thread |-> t, path |-> Path(stack), handler |-> handler,
                                            destination |-> destination, message |-> message])
                   /\ frames' = [frames EXCEPT ![t] = Advance(stack)]
                   /\ pc' = [pc EXCEPT ![t] = DeliverPc(frames'[t])]
                   /\ UNCHANGED <<exec, fired, calls, ctx>>
    /\ UNCHANGED <<plugins, sessions, req, evt, auth, logged, parsing, whois, ignore_list, lang, quits>>

\* The target of a dispatch thread returns, or dies of an uncaught exception:
\* the thread is over, and what was recorded of its calls goes with it
thread_exit(t) ==
    /\ pc[t] \in {"done", "crashed"}
    /\ pc' = [pc EXCEPT ![t] = "idle"]
    /\ req' = [req EXCEPT ![t] = NoReq]
    /\ exec' = [exec EXCEPT ![t] = NoExec]
    /\ evt' = [evt EXCEPT ![t] = NoEvt]
    /\ frames' = [frames EXCEPT ![t] = <<>>]
    /\ calls' = [calls EXCEPT ![t] = <<>>]
    /\ ctx' = [ctx EXCEPT ![t] = NoCtx]
    /\ route' = [route EXCEPT ![t] = NoRoute]
    /\ fired' = [fired EXCEPT ![t] = NoExec]
    /\ wire' = SelectSeq(wire, LAMBDA w : w.thread # t)
    /\ auth' = [auth EXCEPT ![t] = NoAuth]
    /\ lang' = [lang EXCEPT ![t] = NoLang]
    /\ UNCHANGED <<plugins, sessions, logged, parsing, whois, ignore_list, quits>>

\* Auth.attempt, called by the login command: valid says whether the account
\* exists and the password matches
attempt(user, hostmask, valid) ==
    /\ pc[MainThread] = "idle"
    /\ Len(sessions) < MaxSessions
    /\ sessions' = IF session_exists(sessions, NetworkId, hostmask) \/ ~valid
                   THEN sessions
                   ELSE session_create(sessions, user, NetworkId, hostmask)
    /\ UNCHANGED <<plugins, pc, req, exec, evt, frames, calls, ctx, route, fired, wire, auth, logged, parsing, whois, ignore_list, lang, quits>>

\* Auth.logout, called by the logout command
logout(hostmask) ==
    /\ pc[MainThread] = "idle"
    /\ sessions' = IF ~session_exists(sessions, NetworkId, hostmask)
                   THEN sessions
                   ELSE session_destroy(sessions, NetworkId, hostmask)
    /\ UNCHANGED <<plugins, pc, req, exec, evt, frames, calls, ctx, route, fired, wire, auth, logged, parsing, whois, ignore_list, lang, quits>>

\* ------------------------------------------------------------- log filter
\* Commander.filter_command_string: (command_string, filtered)
filter_command_string(registry, command_string) ==
    LET stripped == lstrip_trigger(command_string)
        parsed   == _parse_command_arguments(registry, _parse_command_string(stripped).args)
        plugin   == IF Len(stripped) > 0 THEN stripped[1] ELSE ""
        command  == IF Len(stripped) > 1 THEN stripped[2] ELSE ""
    IN  IF parsed.raised = ""
        THEN IF parsed.help_command
             THEN [command_string |-> <<TRIGGER>> \o stripped, filtered |-> FALSE]
             ELSE [command_string |-> <<TRIGGER, parsed.plugin, parsed.command>>,
                   filtered |-> Len(parsed.args) > 0]
        ELSE [command_string |-> <<TRIGGER, plugin, command>>, filtered |-> Len(stripped) > 2]

\* the command strings that get logged: trigger, plugin and command tokens ...
FilterHeads == {<<TRIGGER, "p", "x">>, <<TRIGGER, "P", "x">>, <<TRIGGER, "HELP", "p", "x">>,
                <<TRIGGER, "zz", "x">>}
\* ... followed by positional arguments
FilterArgs == {<<>>, <<"s1">>, <<"s2">>, <<"s1", "s2">>}

\* the query logger asks for the filtered form of a command string
log_command ==
    /\ Cardinality(logged) < MaxLogged
    /\ \E head \in FilterHeads, args \in FilterArgs :
          logged' = logged \cup {[head |-> head, args |-> args,
                                  result |-> filter_command_string(plugins, head \o args)]}
    /\ UNCHANGED <<plugins, sessions, pc, req, exec, evt, frames, calls, ctx, route, fired, wire, auth, parsing, whois, ignore_list, lang, quits>>

\* ------------------------------------------ command strings, by character
\* A command string as the parser gets it is a str; here a sequence of
\* one-character strings over letters, '-', '=', '"', '>' and the space.
Letters == {"p", "P", "s", "x", "h", "e", "l", "H", "E", "L", "v", "V", "n", "a"}

RECURSIVE Concat(_)
\* the str made of a sequence of characters
Concat(chars) == IF chars = <<>> THEN "" ELSE Head(chars) \o Concat(Tail(chars))

RECURSIVE join(_)
\* ' '.join(tokens)
join(tokens) ==
    IF tokens = <<>> THEN <<>>
    ELSE IF Len(tokens) = 1 THEN tokens[1]
    ELSE tokens[1] \o <<" ">> \o join(Tail(tokens))

RECURSIVE str_lstrip(_, _)
\* str.lstrip(chars)
str_lstrip(string, chars) ==
    IF string # <<>> /\ Head(string) \in chars THEN str_lstrip(Tail(string), chars) ELSE string

RECURSIVE str_rstrip(_, _)
str_rstrip(string, chars) ==
    IF string # <<>> /\ string[Len(string)] \in chars
    THEN str_rstrip(SubSeq(string, 1, Len(string) - 1), chars) ELSE string

\* str.strip()
str_strip(string) == str_rstrip(str_lstrip(string, {" "}), {" "})

RECURSIVE shlex_scan(_, _, _, _)
\* shlex.split, character by character: token is the token being read,
\* in_token says whether one is being read, quoted whether a '"' is open;
\* a quote left open raises ValueError
shlex_scan(string, token, in_token, quoted) ==
    IF string = <<>>
    THEN IF quoted THEN [tokens |-> <<>>, raised |-> "ValueError"]
         ELSE [tokens |-> IF in_token THEN <<token>> ELSE <<>>, raised |-> ""]
    ELSE LET c == Head(string)
         IN  IF c = "\""
             THEN shlex_scan(Tail(string), token, TRUE, ~quoted)
             ELSE IF c = " " /\ ~quoted
             THEN IF in_token
                  THEN LET rest == shlex_scan(Tail(string), <<>>, FALSE, FALSE)
                       IN  [tokens |-> <<token>> \o rest.tokens, raised |-> rest.raised]
                  ELSE shlex_scan(Tail(string), <<>>, FALSE, FALSE)
             ELSE shlex_scan(Tail(string), Append(token, c), TRUE, quoted)

\* a split that leaves the string in one piece
shlex_split_whole(string) == [tokens |-> <<string>>, raised |-> ""]

\* shlex.split(command_string)
shlex_split(string) == shlex_scan(string, <<>>, FALSE, FALSE)

\* the tokens a command string is made of
ParseTokens == {<<"p">>, <<"s">>, <<"x">>, <<"h", "e", "l", "p">>, <<"H", "E", "L", "P">>,
                <<"-", "V">>, <<"-", "v", "v">>, <<"-", "-", "n", "=", "V">>,
                <<"-", "-", "v", "=", "a">>, <<"\"", "x", "\"">>}

\* IRCCommander.execute up to its help short-circuit, called once for the
\* command string made of some tokens: _parse_command_string, _parse_command_arguments and,
\* for a help request, _help_execute
parse_command ==
    /\ parsing.status = "none"
    /\ \E tokens \in SeqsUpTo(ParseTokens, MaxTokens) :
          LET command_string == join(tokens)
              split == shlex_split(str_strip(str_lstrip(command_string, {">"})))
              words == [i \in 1..Len(split.tokens) |-> Concat(split.tokens[i])]
              s     == parse_loop(words, <<>>, {})
              a     == _parse_command_arguments(plugins, s.args)
          IN  parsing' = [status |-> "parsed", tokens |-> tokens, command_string |-> command_string,
                          split |-> split.tokens,
                          raised |-> IF split.raised # "" THEN split.raised ELSE a.raised,
                          args |-> s.args, opts |-> s.opts,
                          plugin |-> a.plugin, command |-> a.command, rest |-> a.args,
                          help_command |-> a.help_command,
                          help |-> IF split.raised = "" /\ a.raised = "" /\ a.help_command
                                   THEN _help_execute(plugins, a.plugin, a.command)
                                   ELSE NoneReply]
    /\ UNCHANGED <<plugins, sessions, pc, req, exec, evt, frames, calls, ctx, route, fired, wire, auth, logged, whois, ignore_list, lang, quits>>

\* ------------------------------------------------------------ WHOIS binding
\* the nicks commands ask about
WhoisTargets == {"n1", "n2"}

\* what the server answers to a WHOIS of target: the arguments of its
\* whoisuser lines
WhoisLines(target) == {<<target, "u", "h">>}

\* connection.remove_global_handler(ev, handler)
remove_global_handler(handlers, type, c) ==
    SelectSeq(handlers, LAMBDA h : ~(h.type = type /\ h.command = c))

\* whois_start of the binding of command c
whois_start(w, c, ev) ==
    [w EXCEPT !.handlers = remove_global_handler(@, "whoisuser", c),
              !.buffer[c] = IF Len(ev.arguments) > 0 THEN Append(@, ev.arguments) ELSE @]

\* whois_end of the binding of command c: callback(self, self._whois), then
\* self._whois = []; the call is recorded with the event it was made on
whois_end(w, c, ev) ==
    [w EXCEPT !.handlers = remove_global_handler(@, "endofwhois", c),
              !.called[c] = Append(@, [whois |-> w.buffer[c], on |-> ev.arguments]),
              !.buffer[c] = <<>>]

RECURSIVE run_handlers(_, _, _)
\* the reactor calls the handlers that were registered for the event when it
\* arrived, in registration order
run_handlers(w, hs, ev) ==
    IF hs = <<>> THEN w
    ELSE LET h == Head(hs)
             after == IF h.type = "whoisuser" THEN whois_start(w, h.command, ev)
                      ELSE whois_end(w, h.command, ev)
         IN  run_handlers(after, Tail(hs), ev)

\* IRCCommand.bind_whois_event: both handlers are registered and the WHOIS is
\* sent; the server will answer with some whoisuser lines (none when no such
\* nick is connected) and the end-of-WHOIS line, which names the nick
bind_whois_event(c) ==
    /\ c \notin whois.bound
    /\ \E target \in WhoisTargets :
       \E lines \in {<<>>} \cup SeqsUpTo(WhoisLines(target), MaxWhoisLines) :
          whois' = [whois EXCEPT
                       !.bound = @ \cup {c},
                       !.targets[c] = target,
                       !.handlers = @ \o <<[type |-> "whoisuser", command |-> c],
                                          [type |-> "endofwhois", command |-> c]>>,
                       !.inflight = @ \o [i \in 1..Len(lines) |-> [type |-> "whoisuser", arguments |-> lines[i]]]
                                      \o <<[type |-> "endofwhois", arguments |-> <<target>>]>>]
    /\ UNCHANGED <<plugins, sessions, pc, req, exec, evt, frames, calls, ctx, route, fired, wire, auth, logged, parsing, ignore_list, lang, quits>>

\* the next event of the server arrives and the reactor dispatches it
process_whois ==
    /\ whois.inflight # <<>>
    /\ LET ev == Head(whois.inflight)
           hs == SelectSeq(whois.handlers, LAMBDA h : h.type = ev.type)
       IN  whois' = run_handlers([whois EXCEPT !.inflight = Tail(@)], hs, ev)
    /\ UNCHANGED <<plugins, sessions, pc, req, exec, evt, frames, calls, ctx, route, fired, wire, auth, logged, parsing, ignore_list, lang, quits>>

\* ------------------------------------------------------ deliver_response
\* what a command hands to deliver_response: nothing, a string, a tagged
\* string, or a list of these
ResponseElems == {NoneReply, StrReply(<<"a">>), TupReply(PRIVATE, <<"b">>)}
Responses == ResponseElems \cup {ListReply(l) : l \in SeqsUpTo(ResponseElems, MaxListLen)}

\* IRCCommand.deliver_response: postmaster.deliver(response, self.source,
\* self.connection.channel, self.public)
deliver_response(t) ==
    /\ pc[t] = "idle"
    /\ \E response \in Responses, source \in Sources, public \in BOOLEAN :
          /\ frames' = [frames EXCEPT ![t] = <<Frame(response)>>]
          /\ calls' = [calls EXCEPT ![t] = Normalize(response)]
          /\ ctx' = [ctx EXCEPT ![t] = [source |-> source, public |-> public]]
    /\ pc' = [pc EXCEPT ![t] = IF frames'[t][1].responses = <<>> THEN "done" ELSE "deliver"]
    /\ UNCHANGED <<plugins, sessions, req, exec, evt, route, fired, wire, auth, logged, parsing, whois, ignore_list, lang, quits>>

\* ------------------------------------------------------------ ignore list
HOST == "host"
NICK == "nick"

\* the id the database gives a new row of the ignore table
new_id(db) == IF db = {} THEN 1 ELSE 1 + CHOOSE i \in {r.id : r \in db} : \A r \in db : r.id <= i

\* str(source).lower() for the nick mask; a host is kept as it is
masked(source, mask) == IF mask = NICK THEN Lower(source) ELSE source

\* the in-memory list of a mask
listed(list, mask) == IF mask = HOST THEN list.hosts ELSE list.nicks

\* IgnoreList.delete: query(IgnoreListModel).filter(IgnoreListModel.source == source).delete()
delete_rows(db, source, mask) == {r \in db : r.source # source}

\* IgnoreList.add: the entry goes into the list of its mask and into the
\* database, unless the list has it already (IgnoreEntryAlreadyExistsError)
ignore_add(source, mask) ==
    /\ \A t \in Threads : pc[t] = "idle"
    /\ mask \in {HOST, NICK}
    /\ masked(source, mask) \notin listed(ignore_list, mask)
    /\ new_id(ignore_list.db) <= MaxIgnoreRows
    /\ LET entry == [id |-> new_id(ignore_list.db), source |-> masked(source, mask), mask |-> mask]
       IN  ignore_list' = [hosts |-> IF mask = HOST THEN ignore_list.hosts \cup {entry.source} ELSE ignore_list.hosts,
                           nicks |-> IF mask = NICK THEN ignore_list.nicks \cup {entry.source} ELSE ignore_list.nicks,
                           db    |-> ignore_list.db \cup {entry}]
    /\ UNCHANGED <<plugins, sessions, pc, req, exec, evt, frames, calls, ctx, route, fired, wire, auth, logged, parsing, whois, lang, quits>>

\* IgnoreList.delete: the entry leaves the list of its mask, then the
\* database; nothing happens when the list does not have it
ignore_delete_entry(list, source, mask) ==
    IF mask \notin {HOST, NICK} \/ masked(source, mask) \notin listed(list, mask)
    THEN list
    ELSE [hosts |-> IF mask = HOST THEN list.hosts \ {source} ELSE list.hosts,
          nicks |-> IF mask = NICK THEN list.nicks \ {masked(source, mask)} ELSE list.nicks,
          db    |-> delete_rows(list.db, masked(source, mask), mask)]

ignore_delete(source, mask) ==
    /\ \A t \in Threads : pc[t] = "idle"
    /\ ignore_list' = ignore_delete_entry(ignore_list, source, mask)
    /\ UNCHANGED <<plugins, sessions, pc, req, exec, evt, frames, calls, ctx, route, fired, wire, auth, logged, parsing, whois, lang, quits>>

\* IgnoreList.delete_by_id: delete() of the source and mask of the row
ignore_delete_by_id(db_id) ==
    /\ \A t \in Threads : pc[t] = "idle"
    /\ LET found == {r \in ignore_list.db : r.id = db_id}
       IN  ignore_list' = IF found = {} THEN ignore_list
                          ELSE LET ignore_list_entry == CHOOSE r \in found : TRUE
                               IN  ignore_delete_entry(ignore_list, ignore_list_entry.source,
                                                       ignore_list_entry.mask)
    /\ UNCHANGED <<plugins, sessions, pc, req, exec, evt, frames, calls, ctx, route, fired, wire, auth, logged, parsing, whois, lang, quits>>

\* IgnoreList.clear
ignore_clear ==
    /\ \A t \in Threads : pc[t] = "idle"
    /\ ignore_list' = NoIgnore
    /\ UNCHANGED <<plugins, sessions, pc, req, exec, evt, frames, calls, ctx, route, fired, wire, auth, logged, parsing, whois, lang, quits>>

\* ---------------------------------------------------------- the Auth plugin
\* plugins/Auth/irc.py as PluginManager.load_plugin registers it: the Commands
\* class and its help dictionary, the Events class with on_quit only
RegistryAuth ==
    [n \in {"auth"} |->
        [command_classes |-> {"__init__", "command_login", "command_logout", "command_whoami"},
         event_classes   |-> {"__init__", "on_quit"},
         commands_help   |-> {"main", "login", "logout", "whoami"}]]

\* `Syntax: auth login <email> <password>` in the docstring of command_login
login_min_args == 2

Refusal(nick) == StrReply(<<nick, "you can't run this command in public channels">>)

\* the record of an Auth.attempt call that went as far as it could in one go
AttemptCall(user, hostmask, exists, failure) ==
    LET raised == attempt_guard(exists)
    IN  [NoAuth EXCEPT !.op = "attempt", !.at = "done", !.user = user, !.hostmask = hostmask,
                       !.existed = exists,
                       !.credentials = (raised = ""),
                       !.wrote = (raised = "" /\ failure = ""),
                       !.raised = IF raised # "" THEN raised ELSE failure]

\* a command_login without the `if command.public` refusal
command_login_anywhere(rows, public, source, args, failure, user) ==
    LET call == AttemptCall(user, source.host, session_exists(rows, NetworkId, source.host), failure)
    IN  IF Len(args) < 2
        THEN [o |-> Return(StrReply(<<"You must specify an email and password to log in">>)),
              rows |-> rows, call |-> NoAuth]
        ELSE [o |-> Return(TupReply(PRIVATE_NOTICE, <<"login", call.raised>>)),
              rows |-> IF call.wrote THEN session_create(rows, user, NetworkId, source.host) ELSE rows,
              call |-> call]

\* Commands.command_login: what it returns, the session rows it leaves and the
\* Auth.attempt call it made; failure is what the credential check raises ("" when
\* it passes), user the account the email belongs to
command_login(rows, public, source, args, failure, user) ==
    LET call == AttemptCall(user, source.host, session_exists(rows, NetworkId, source.host), failure)
    IN  IF public
        THEN [o |-> Return(Refusal(source.nick)), rows |-> rows, call |-> NoAuth]
        ELSE IF Len(args) < 2
        THEN [o |-> Return(StrReply(<<"You must specify an email and password to log in">>)),
              rows |-> rows, call |-> NoAuth]
        ELSE IF call.raised = "AlreadyAuthenticatedError"
        THEN [o |-> Return(StrReply(<<"You are already logged in">>)), rows |-> rows, call |-> call]
        ELSE IF call.raised # ""
        THEN [o |-> Return(StrReply(<<"Either no account under this email exists or you supplied an incorrect password">>)),
              rows |-> rows, call |-> call]
        ELSE [o |-> Return(TupReply(PRIVATE_NOTICE, <<"You have successfully logged in as", "<strong>", args[1], "</strong>">>)),
              rows |-> session_create(rows, user, NetworkId, source.host), call |-> call]

\* Commands.command_logout
command_logout(rows, public, source) ==
    LET exists == session_exists(rows, NetworkId, source.host)
        call   == [NoAuth EXCEPT !.op = "logout", !.at = "done", !.hostmask = source.host,
                                 !.existed = exists, !.wrote = exists,
                                 !.raised = IF exists THEN "" ELSE "NotAuthenticatedError"]
    IN  IF public
        THEN [o |-> Return(Refusal(source.nick)), rows |-> rows, call |-> NoAuth]
        ELSE IF ~exists
        THEN [o |-> Return(StrReply(<<"You are not logged in">>)), rows |-> rows, call |-> call]
        ELSE [o |-> Return(StrReply(<<"You have been successfully logged out">>)),
              rows |-> session_destroy(rows, NetworkId, source.host), call |-> call]

\* the handler of the Auth plugin a tier of the ladder resolved to
auth_handler(e, rows, failure, user) ==
    CASE e.command = "login"  -> command_login(rows, e.public, e.source, e.args, failure, user)
      [] e.command = "logout" -> command_logout(rows, e.public, e.source)
      [] OTHER                -> [o |-> Return(NoneReply), rows |-> rows, call |-> NoAuth]

\* IRCCommander.execute, one tier of the ladder, for a command of the Auth
\* plugin: _execute resolves the handler and invokes it
execute_auth(t) ==
    /\ pc[t] = "tier"
    /\ exec[t].plugin = "auth"
    /\ \E failure \in {"", "InvalidPasswordError"}, user \in DOMAIN Users :
          LET h == IF resolves(plugins, exec[t])
                   THEN auth_handler(exec[t], sessions, failure, user)
                   ELSE [o |-> Return(NoneReply), rows |-> sessions, call |-> auth[t]]
              e == _execute(plugins, exec[t], h.o)
          IN  /\ Len(h.rows) <= MaxSessions
              /\ exec' = [exec EXCEPT ![t] = e]
              /\ sessions' = h.rows
              /\ auth' = [auth EXCEPT ![t] = IF resolves(plugins, exec[t]) /\ h.call # NoAuth
                                             THEN h.call ELSE @]
              /\ IF e.status = "running"
                 THEN UNCHANGED <<pc, frames, calls, ctx, fired>>
                 ELSE AfterExecute(t, e)
    /\ UNCHANGED <<plugins, req, evt, route, wire, logged, parsing, whois, ignore_list, lang, quits>>

\* ------------------------------------------------- Auth calls, step by step
\* A dispatch thread calls Auth.attempt, Auth.login or Auth.logout
auth_call(t) ==
    /\ auth[t].at = "idle"
    /\ \E op \in {"attempt", "login", "logout"}, user \in DOMAIN Users, hostmask \in Hosts :
          auth' = [auth EXCEPT ![t] = [NoAuth EXCEPT !.op = op, !.at = "called", !.hostmask = hostmask,
                                                     !.user = IF op = "logout" THEN 0 ELSE user]]
    /\ UNCHANGED <<plugins, sessions, pc, req, exec, evt, frames, calls, ctx, route, fired, wire, logged, parsing, whois, ignore_list, lang, quits>>

\* Auth.attempt, the session.exists query and the raise it guards
attempt_check(t) ==
    /\ auth[t].op = "attempt" /\ auth[t].at = "called"
    /\ LET exists == session_exists(sessions, NetworkId, auth[t].hostmask)
           raised == attempt_guard(exists)
       IN  auth' = [auth EXCEPT ![t] = [@ EXCEPT !.existed = exists, !.raised = raised,
                                                 !.at = IF raised # "" THEN "done" ELSE "checked"]]
    /\ UNCHANGED <<plugins, sessions, pc, req, exec, evt, frames, calls, ctx, route, fired, wire, logged, parsing, whois, ignore_list, lang, quits>>

\* Auth.attempt after the guard: the user lookup and the password check,
\* which fail or not, then session.create
attempt_create(t) ==
    /\ auth[t].op = "attempt" /\ auth[t].at = "checked"
    /\ \E failure \in {"", "UserDoesNotExistsError", "InvalidPasswordError"} :
          IF failure # ""
          THEN /\ auth' = [auth EXCEPT ![t] = [@ EXCEPT !.credentials = TRUE, !.raised = failure,
                                                        !.at = "done"]]
               /\ sessions' = sessions
          ELSE /\ Len(sessions) < MaxAuthRows
               /\ sessions' = session_create(sessions, auth[t].user, NetworkId, auth[t].hostmask)
               /\ auth' = [auth EXCEPT ![t] = [@ EXCEPT !.credentials = TRUE, !.wrote = TRUE,
                                                        !.at = "done"]]
    /\ UNCHANGED <<plugins, pc, req, exec, evt, frames, calls, ctx, route, fired, wire, logged, parsing, whois, ignore_list, lang, quits>>

\* Auth.login: the user lookup, which fails or not, then session.create
login_create(t) ==
    /\ auth[t].op = "login" /\ auth[t].at = "called"
    /\ \E failure \in {"", "UserDoesNotExistsError"} :
          IF failure # ""
          THEN /\ auth' = [auth EXCEPT ![t] = [@ EXCEPT !.raised = failure, !.at = "done"]]
               /\ sessions' = sessions
          ELSE /\ Len(sessions) < MaxAuthRows
               /\ sessions' = session_create(sessions, auth[t].user, NetworkId, auth[t].hostmask)
               /\ auth' = [auth EXCEPT ![t] = [@ EXCEPT !.wrote = TRUE, !.at = "done"]]
    /\ UNCHANGED <<plugins, pc, req, exec, evt, frames, calls, ctx, route, fired, wire, logged, parsing, whois, ignore_list, lang, quits>>

\* Auth.logout, the session.exists query and the raise it guards
logout_check(t) ==
    /\ auth[t].op = "logout" /\ auth[t].at = "called"
    /\ LET exists == session_exists(sessions, NetworkId, auth[t].hostmask)
       IN  auth' = [auth EXCEPT ![t] = [@ EXCEPT !.existed = exists,
                                                 !.raised = IF exists THEN "" ELSE "NotAuthenticatedError",
                                                 !.at = IF exists THEN "checked" ELSE "done"]]
    /\ UNCHANGED <<plugins, sessions, pc, req, exec, evt, frames, calls, ctx, route, fired, wire, logged, parsing, whois, ignore_list, lang, quits>>

\* Auth.logout after the guard: session.destroy
logout_destroy(t) ==
    /\ auth[t].op = "logout" /\ auth[t].at = "checked"
    /\ sessions' = session_destroy(sessions, NetworkId, auth[t].hostmask)
    /\ auth' = [auth EXCEPT ![t] = [@ EXCEPT !.wrote = TRUE, !.at = "done"]]
    /\ UNCHANGED <<plugins, pc, req, exec, evt, frames, calls, ctx, route, fired, wire, logged, parsing, whois, ignore_list, lang, quits>>

\* the Auth call returns or raises to its caller
auth_return(t) ==
    /\ auth[t].at = "done"
    /\ auth' = [auth EXCEPT ![t] = NoAuth]
    /\ UNCHANGED <<plugins, sessions, pc, req, exec, evt, frames, calls, ctx, route, fired, wire, logged, parsing, whois, ignore_list, lang, quits>>

\* IRCCommander.execute reaches its authentication gate for a client
gate_call(t) ==
    /\ auth[t].at = "idle"
    /\ \E hostmask \in Hosts :
          auth' = [auth EXCEPT ![t] = [NoAuth EXCEPT !.op = "gate", !.at = "called", !.hostmask = hostmask]]
    /\ UNCHANGED <<plugins, sessions, pc, req, exec, evt, frames, calls, ctx, route, fired, wire, logged, parsing, whois, ignore_list, lang, quits>>

\* IRCCommander.execute: `if self.auth.check(source.host, self.connection.network)`
gate_check(t) ==
    /\ auth[t].op = "gate" /\ auth[t].at = "called"
    /\ LET authed == auth_check(sessions, auth[t].hostmask, NetworkId)
       IN  auth' = [auth EXCEPT ![t] = [@ EXCEPT !.existed = authed,
                                                 !.at = IF authed THEN "checked" ELSE "done"]]
    /\ UNCHANGED <<plugins, sessions, pc, req, exec, evt, frames, calls, ctx, route, fired, wire, logged, parsing, whois, ignore_list, lang, quits>>

\* IRCCommander.execute: `user = self.auth.user(source.host, self.connection.network)`,
\* a second query of the session table
gate_user(t) ==
    /\ auth[t].op = "gate" /\ auth[t].at = "checked"
    /\ LET user == auth_user(sessions, auth[t].hostmask, NetworkId)
       IN  auth' = [auth EXCEPT ![t] = [@ EXCEPT !.user = user.user.id, !.raised = user.raised,
                                                 !.at = "done"]]
    /\ UNCHANGED <<plugins, sessions, pc, req, exec, evt, frames, calls, ctx, route, fired, wire, logged, parsing, whois, ignore_list, lang, quits>>

\* ---------------------------------------------------------- specifications
\* One inbound event is dispatched at a time; login and logout are commands
\* themselves, so the session table changes between two dispatches
Next ==
    \/ on_message(MainThread)
    \/ on_notice(MainThread)
    \/ _handle_message(MainThread)
    \/ execute(MainThread)
    \/ event(MainThread)
    \/ deliver(MainThread)
    \/ thread_exit(MainThread)
    \/ \E u \in DOMAIN Users, h \in Hosts, valid \in BOOLEAN : attempt(u, h, valid)
    \/ \E h \in Hosts : logout(h)

Spec == Init /\ [][Next]_vars

\* Dispatch threads running at the same time, each on a plain message the
\* language engine answers
on_text(t) == Receive(t, {<<"hello">>}, Sources)

InitThreads ==
    /\ Init
    /\ plugins = Registry(AllCommands, NoClass, NoClass)

NextThreads ==
    \E t \in Threads :
        \/ on_text(t)
        \/ _handle_message(t)
        \/ event(t)
        \/ deliver(t)
        \/ thread_exit(t)

SpecThreads == InitThreads /\ [][NextThreads]_vars

\* Two dispatch threads, started by private messages that arrive one after
\* the other, run Auth calls at the same time
AuthThreads == {MainThread, MainThread + 1}

InitAuth ==
    /\ Init
    /\ plugins = Registry(AllCommands, NoClass, NoClass)

NextAuth ==
    \E t \in AuthThreads :
        \/ auth_call(t)
        \/ attempt_check(t)
        \/ attempt_create(t)
        \/ login_create(t)
        \/ logout_check(t)
        \/ logout_destroy(t)
        \/ auth_return(t)

SpecAuth == InitAuth /\ [][NextAuth]_vars

\* Two dispatch threads: while one is at the authentication gate of execute()
\* the other runs Auth calls
NextGate ==
    \/ NextAuth
    \/ \E t \in AuthThreads :
          \/ gate_call(t)
          \/ gate_check(t)
          \/ gate_user(t)

SpecGate == InitAuth /\ [][NextGate]_vars

\* One inbound event is dispatched at a time, the Auth plugin is the one
\* plugin loaded and every inbound text is one of its commands
LoginTexts == {<<TRIGGER, "auth", "login", "me", "secret">>, <<TRIGGER, "auth", "login", "me">>,
               <<TRIGGER, "auth", "logout">>, <<TRIGGER, "auth">>}

on_login_text(t) == Receive(t, LoginTexts, Sources)

InitLogin ==
    /\ plugins = RegistryAuth
    /\ Fresh

NextLogin ==
    \/ on_login_text(MainThread)
    \/ _handle_message(MainThread)
    \/ execute_auth(MainThread)
    \/ event(MainThread)
    \/ deliver(MainThread)
    \/ thread_exit(MainThread)

SpecLogin == InitLogin /\ [][NextLogin]_vars

\* Command strings are filtered for the log, nothing is dispatched
InitFilter ==
    /\ plugins = Registry(AllCommands, NoClass, NoClass)
    /\ Fresh

NextFilter == log_command

SpecFilter == InitFilter /\ [][NextFilter]_vars

\* Command strings are parsed, nothing is dispatched.  The registries: plugin
\* p alone, its sub-plugin p.s alone (p is disabled), both, and p next to a
\* plugin s that has no help dictionary
ParseRegistry(names) ==
    [n \in names |->
        [command_classes |-> AllCommands, event_classes |-> NoClass,
         commands_help |-> IF n = "p" THEN {"main", "x"} ELSE IF n = "p.s" THEN {"x"} ELSE {}]]

ParseRegistries == {ParseRegistry(names) : names \in {{"p"}, {"p.s"}, {"p", "p.s"}, {"p", "s"}}}

InitParse ==
    /\ plugins \in ParseRegistries
    /\ Fresh

NextParse == parse_command

SpecParse == InitParse /\ [][NextParse]_vars

\* Commands bind WHOIS events, the server answers
InitWhois ==
    /\ plugins = Registry(AllCommands, NoClass, NoClass)
    /\ Fresh

NextWhois ==
    \/ \E c \in Commands : bind_whois_event(c)
    \/ process_whois

SpecWhois == InitWhois /\ [][NextWhois]_vars

\* One inbound message is dispatched at a time; between two dispatches an
\* administrator puts clients on the ignore list
IgnoreTexts == {<<TRIGGER, "p", "x">>, <<TRIGGER, "zz", "x">>, <<"hello">>}

\* the clients: two of them have the same nick but for its case
IgnoreSources == Sources \cup {[nick |-> "Bob", host |-> "h3"]}

on_ignore_text(t) == Receive(t, IgnoreTexts, IgnoreSources)

InitIgnore ==
    /\ plugins = Registry({public_prefix \o "x", "__init__"}, AllEvents, NoClass)
    /\ Fresh

NextIgnore ==
    \/ \E source \in IgnoreSources : ignore_add(source.host, HOST) \/ ignore_add(source.nick, NICK)
    \/ on_ignore_text(MainThread)
    \/ on_action(MainThread)
    \/ _handle_message(MainThread)
    \/ execute(MainThread)
    \/ event(MainThread)
    \/ deliver(MainThread)
    \/ thread_exit(MainThread)

SpecIgnore == InitIgnore /\ [][NextIgnore]_vars

\* An administrator edits the ignore list; nothing is dispatched.  A client
\* can have a host that reads like the nick of another
IgnoreStrings == {"h1", "bob", "Bob"}

NextIgnoreList ==
    \/ \E source \in IgnoreStrings, mask \in {HOST, NICK, "invalid"} :
          \/ ignore_add(source, mask)
          \/ ignore_delete(source, mask)
    \/ \E db_id \in 1..MaxIgnoreRows : ignore_delete_by_id(db_id)
    \/ ignore_clear

SpecIgnoreList == InitIgnore /\ [][NextIgnoreList]_vars

\* Commands hand responses to deliver_response, one at a time
InitDeliver ==
    /\ plugins = Registry(AllCommands, NoClass, NoClass)
    /\ Fresh

NextDeliver ==
    \/ deliver_response(MainThread)
    \/ deliver(MainThread)
    \/ thread_exit(MainThread)

SpecDeliver == InitDeliver /\ [][NextDeliver]_vars

\* The Auth plugin is the one plugin loaded; clients send its commands and
\* quit.  A thread that was started runs until it ends.
InitQuit ==
    /\ plugins = RegistryAuth
    /\ Fresh

NextQuit ==
    \/ \E source \in Sources : on_quit(source)
    \/ on_login_text(MainThread)
    \/ _handle_message(MainThread)
    \/ execute_auth(MainThread)
    \/ event(MainThread)
    \/ deliver(MainThread)
    \/ thread_exit(MainThread)

SpecQuit ==
    /\ InitQuit
    /\ [][NextQuit]_vars
    /\ WF_vars(_handle_message(MainThread))
    /\ WF_vars(execute_auth(MainThread))
    /\ WF_vars(event(MainThread))
    /\ WF_vars(deliver(MainThread))
    /\ WF_vars(thread_exit(MainThread))

\* ------------------------------------------------------------- properties
Last(q) == q[Len(q)]

\* the plugin an execute() call addresses defines the command at a tier
Defines(e, command_prefix) ==
    /\ is_loaded(plugins, e.plugin)
    /\ e.command # "None"
    /\ (command_prefix \o e.command) \in plugins[e.plugin].command_classes

DefinesAll(e) == \A command_prefix \in Prefixes : Defines(e, command_prefix)

Invoked(e, command_prefix) == \E i \in 1..Len(e.invoked) : e.invoked[i] = command_prefix

\* what the handler of a tier returned in an execute() call that invoked it
ReplyOf(e, command_prefix) ==
    LET i == CHOOSE i \in 1..Len(e.invoked) : e.invoked[i] = command_prefix
    IN  e.returned[i].reply

\* an execute() call an authenticated administrator made, after the ladder
AdminCall(e) == e.status = "returned" /\ e.authed /\ e.is_admin

\* C1 as stated: whenever the plugin defines the command at all three tiers,
\* an authenticated admin caller receives the admin-tier handler's reply, and
\* only the admin-tier handler ran.
C1_AdminReplyAlways ==
    \A t \in Threads :
        (AdminCall(exec[t]) /\ DefinesAll(exec[t]))
            => /\ exec[t].invoked = <<admin_prefix>>
               /\ exec[t].result = ReplyOf(exec[t], admin_prefix)

\* C1 amended: with all three tiers defined, the admin-tier handler is the
\* first one an authenticated admin's call invokes; when its reply is
\* non-empty that reply is what execute() returns and no other tier's
\* handler is invoked.
C1_TierPrecedence ==
    \A t \in Threads :
        LET e == exec[t]
        IN  /\ (e.authed /\ e.is_admin /\ DefinesAll(e) /\ e.invoked # <<>>)
                  => e.invoked[1] = admin_prefix
            /\ \A i \in 1..Len(e.invoked) :
                  (e.invoked[i] = admin_prefix /\ e.returned[i].kind = "return"
                        /\ Truthy(e.returned[i].reply))
                     => /\ e.invoked = <<admin_prefix>>
                        /\ e.status = "returned"
                        /\ e.result = e.returned[i].reply

C1_Witness ==
    \E t \in Threads :
        /\ AdminCall(exec[t]) /\ DefinesAll(exec[t])
        /\ exec[t].invoked = <<admin_prefix>>
        /\ Truthy(exec[t].result)

\* C2: an admin-tier handler is invoked only in a call whose auth.check
\* returned true and whose user is an admin, a user-tier handler only in a
\* call whose auth.check returned true; a call without a session invokes
\* public-tier handlers only; an authenticated non-admin addressing a command
\* defined at the admin tier only gets None, and nothing is raised.
OnlyAdminTier(e) ==
    /\ Defines(e, admin_prefix)
    /\ ~Defines(e, user_prefix)
    /\ ~Defines(e, public_prefix)

C2_PrivilegeGating ==
    \A t \in Threads :
        LET e == exec[t]
        IN  /\ \A i \in 1..Len(e.invoked) :
                  /\ e.invoked[i] = admin_prefix => (e.authed /\ e.is_admin)
                  /\ e.invoked[i] = user_prefix => e.authed
                  /\ ~e.authed => e.invoked[i] = public_prefix
            /\ (e.authed /\ ~e.is_admin /\ OnlyAdminTier(e) /\ e.status \in {"returned", "raised"})
                  => /\ e.status = "returned"
                     /\ e.result = NoneReply
                     /\ e.invoked = <<>>

C2_Witness ==
    \E t \in Threads :
        /\ exec[t].authed /\ ~exec[t].is_admin /\ OnlyAdminTier(exec[t])
        /\ exec[t].status = "returned"
        /\ exec[t].result = NoneReply

\* C3: the tiers are tried in the order admin, user, public; every handler
\* invoked before the last one returned an empty reply; an admin's call whose
\* admin-tier handler returned an empty reply invokes the user-tier handler
\* and returns its reply when non-empty, and otherwise returns what the
\* public-tier handler returned (None when there is none).
Rank(command_prefix) ==
    CASE command_prefix = admin_prefix  -> 1
      [] command_prefix = user_prefix   -> 2
      [] command_prefix = public_prefix -> 3

EmptyAt(e, command_prefix) ==
    ~Invoked(e, command_prefix) \/ ~Truthy(ReplyOf(e, command_prefix))

C3_LadderFallthrough ==
    \A t \in Threads :
        LET e == exec[t]
        IN  /\ \A i, j \in 1..Len(e.invoked) : i < j => Rank(e.invoked[i]) < Rank(e.invoked[j])
            /\ \A i \in 1..(Len(e.invoked) - 1) :
                  e.returned[i].kind = "return" /\ ~Truthy(e.returned[i].reply)
            /\ AdminCall(e) =>
                  /\ Defines(e, admin_prefix) => Invoked(e, admin_prefix)
                  /\ (EmptyAt(e, admin_prefix) /\ Defines(e, user_prefix)) => Invoked(e, user_prefix)
                  /\ (EmptyAt(e, admin_prefix) /\ EmptyAt(e, user_prefix) /\ Defines(e, public_prefix))
                        => Invoked(e, public_prefix)
                  /\ e.result =
                        IF ~EmptyAt(e, admin_prefix) THEN ReplyOf(e, admin_prefix)
                        ELSE IF ~EmptyAt(e, user_prefix) THEN ReplyOf(e, user_prefix)
                        ELSE IF Invoked(e, public_prefix) THEN ReplyOf(e, public_prefix)
                        ELSE NoneReply

C3_Witness ==
    \E t \in Threads :
        /\ AdminCall(exec[t])
        /\ exec[t].invoked = <<admin_prefix, user_prefix>>
        /\ exec[t].returned[1].reply = NoneReply
        /\ exec[t].result = exec[t].returned[2].reply
        /\ Truthy(exec[t].result)

\* the call's last handler invocation raised an exception of one of the names
HandlerRaised(e, names) ==
    /\ e.invoked # <<>>
    /\ Last(e.returned).kind = "raise"
    /\ Last(e.returned).name \in names

\* C4: whenever a handler raises a CommandError subclass or a ValidationError,
\* execute() returns the reply (destination, message) built from the error's
\* destination and message, and no exception leaves execute().
C4_CommandErrorsNormalized ==
    \A t \in Threads :
        HandlerRaised(exec[t], CommandErrors \cup {"ValidationError"})
            => /\ exec[t].status = "returned"
               /\ exec[t].result = TupReply(exec[t].exc.destination, exec[t].exc.error_message)

\* C5: whenever a handler raises any other exception, execute() returns a
\* generic, non-empty error reply, and no exception leaves execute().
C5_UnknownErrorsContained ==
    \A t \in Threads :
        HandlerRaised(exec[t], {"Exception"})
            => /\ exec[t].status = "returned"
               /\ Truthy(exec[t].result)
               /\ pc[t] # "crashed"

\* C6: whenever deliver() meets a reply routed to COMMAND, execute() runs
\* that command string with the same source and public context: the call is
\* not cut short by an exception, and a non-empty reply it returns is the
\* list deliver() goes on with.
C6_CommandRecursion ==
    \A t \in Threads :
        route[t].destination = COMMAND
            => /\ fired[t].command_string = route[t].message
               /\ fired[t].source = route[t].source
               /\ fired[t].public = route[t].public
               /\ fired[t].status \in {"running", "returned"}
               /\ (fired[t].status = "returned" /\ Truthy(fired[t].result))
                     => (frames[t] # <<>> /\ Last(frames[t]) = Frame(fired[t].result))

\* what thread t handed to the wire primitives, in order
ThreadWire(t) == SelectSeq(wire, LAMBDA w : w.thread = t)

\* path p comes before path q in the depth-first walk of nested reply lists
LexLess(p, q) ==
    \/ \E k \in 1..Len(p) :
          /\ k <= Len(q)
          /\ p[k] < q[k]
          /\ \A j \in 1..(k - 1) : p[j] = q[j]
    \/ Len(p) < Len(q) /\ \A j \in 1..Len(p) : p[j] = q[j]

Routed(t) == route[t].handler # ""

\* C8: a reply tagged private, private_notice or private_action goes to the
\* sender's nick, never to the channel; one tagged public, public_notice or
\* public_action goes to the channel; one tagged command to the COMMAND
\* pseudo-destination; one tagged action, or not tagged, to the channel when
\* the context is public and to the sender's nick otherwise.
C8_DestinationTable ==
    \A t \in Threads :
        Routed(t) =>
            LET r == route[t].response
                d == route[t].destination
                tagged == r.type = "tuple"
            IN  /\ (tagged /\ r.tag \in {"private", "private_notice", "private_action"})
                      => (d = route[t].source.nick /\ d # ChannelName)
                /\ (tagged /\ r.tag \in {"public", "public_notice", "public_action"})
                      => d = ChannelName
                /\ (tagged /\ r.tag = "command") => d = COMMAND
                /\ (~tagged \/ r.tag = "action")
                      => d = (IF route[t].public THEN ChannelName ELSE route[t].source.nick)

C8_Witness ==
    \E t \in Threads :
        /\ Routed(t)
        /\ route[t].response.type = "tuple"
        /\ route[t].response.tag = PRIVATE_NOTICE
        /\ route[t].public
        /\ route[t].destination = route[t].source.nick

\* C9: a reply tagged private or public is sent with privmsg, one tagged
\* private_notice or public_notice with notice, one tagged action,
\* private_action or public_action with action; an untagged reply and a reply
\* with any other tag are sent with privmsg.
C9_HandlerTable ==
    \A t \in Threads :
        Routed(t) =>
            LET r == route[t].response
                h == route[t].handler
                tagged == r.type = "tuple"
            IN  /\ (tagged /\ r.tag \in {"private", "public"}) => h = "privmsg"
                /\ (tagged /\ r.tag \in {"private_notice", "public_notice"}) => h = "notice"
                /\ (tagged /\ r.tag \in {"action", "private_action", "public_action"}) => h = "action"
                /\ (~tagged \/ r.tag \notin {"private", "public", "private_notice", "public_notice",
                                            "action", "private_action", "public_action"})
                      => h = "privmsg"

C9_Witness ==
    \E t \in Threads :
        /\ Routed(t)
        /\ route[t].response.type = "tuple"
        /\ route[t].response.tag = PUBLIC_ACTION
        /\ route[t].handler = "action"

\* the loaded plugins that have an Events class with a handler for the event
Listeners(event_name) ==
    SelectSeq(LoadedOrder(plugins),
              LAMBDA n : plugins[n].event_classes # NoClass /\ event_name \in plugins[n].event_classes)

\* the non-empty replies among what the handlers did, in order
Collected(outs) ==
    LET kept == SelectSeq(outs, LAMBDA o : o.kind = "return" /\ Truthy(o.reply))
    IN  [i \in 1..Len(kept) |-> kept[i].reply]

\* C10: an event() call that is not skipped returns, whatever its handlers
\* raise: every loaded plugin with a handler for the event was invoked, in
\* order, and the replies are the non-empty replies of the handlers that
\* returned.
C10_EventIsolation ==
    \A t \in Threads :
        evt[t].status \notin {"none", "skipped"} =>
            /\ evt[t].status = "returned"
            /\ evt[t].invoked = Listeners(evt[t].event_name)
            /\ Len(evt[t].outs) = Len(evt[t].invoked)
            /\ evt[t].replies = Collected(evt[t].outs)

C10_Witness ==
    \E t \in Threads :
        /\ evt[t].status = "returned"
        /\ evt[t].invoked = <<"p", "q">>
        /\ evt[t].outs[1].kind = "raise"
        /\ evt[t].outs[2].kind = "return"
        /\ evt[t].replies = <<evt[t].outs[2].reply>>

\* C11: an Auth.attempt call whose session.exists query found a session for
\* its (network, hostmask) pair ends there with AlreadyAuthenticatedError: it
\* never gets to the credential check and never writes to the session store.
C11_DuplicateLoginRejected ==
    \A t \in Threads :
        (auth[t].op = "attempt" /\ auth[t].at \in {"checked", "done"} /\ auth[t].existed)
            => /\ auth[t].at = "done"
               /\ auth[t].raised = "AlreadyAuthenticatedError"
               /\ ~auth[t].credentials
               /\ ~auth[t].wrote

C11_Witness ==
    \E t \in Threads :
        /\ auth[t].op = "attempt" /\ auth[t].at = "done" /\ auth[t].existed
        /\ auth[t].raised = "AlreadyAuthenticatedError"
        /\ Len(session_filter(sessions, NetworkId, auth[t].hostmask)) = 1

\* C12: in every state of the session store, whatever way the threads' calls
\* of Auth.attempt, Auth.login and Auth.logout interleave, at most one session
\* exists for a (network, hostmask) pair.
C12_SessionUniqueness ==
    \A hostmask \in Hosts : Len(session_filter(sessions, NetworkId, hostmask)) <= 1

\* the lower-cased words of a command string, and its pairs of consecutive
\* words joined by a dot
NamesIn(text) ==
    {Lower(text[i]) : i \in 1..Len(text)}
    \cup {Lower(text[i]) \o "." \o Lower(text[i + 1]) : i \in 1..(Len(text) - 1)}

\* C13: an execute() call on a command string that names no loaded plugin or
\* sub-plugin returns None: no handler is invoked, the authentication gate is
\* not reached and nothing is raised; the empty command string is such a string.
C13_UnloadedPluginSilent ==
    /\ \A t \in Threads :
          (exec[t].status # "none" /\ NamesIn(exec[t].command_string) \cap DOMAIN plugins = {})
             => /\ exec[t].status = "returned"
                /\ exec[t].result = NoneReply
                /\ exec[t].invoked = <<>>
                /\ ~exec[t].gate
                /\ pc[t] # "crashed"
    /\ \A text \in {<<>>, <<TRIGGER>>} :
          _parse_command_arguments(plugins, _parse_command_string(text).args).raised
             = "PluginNotLoadedError"

C13_Witness ==
    \E t \in Threads :
        /\ exec[t].command_string = <<TRIGGER, "zz", "x">>
        /\ exec[t].status = "returned"
        /\ exec[t].result = NoneReply
        /\ sessions # <<>>

\* C14: an execute() call on `help p x` returns the help entry of x whoever
\* calls: the authentication gate is not consulted and no handler is invoked.
C14_HelpBypass ==
    \A t \in Threads :
        (exec[t].status # "none" /\ exec[t].command_string = <<TRIGGER, "HELP", "p", "x">>)
            => /\ exec[t].status = "returned"
               /\ exec[t].result = StrReply(<<"help", "x">>)
               /\ ~exec[t].gate
               /\ ~exec[t].authed
               /\ exec[t].invoked = <<>>

C14_Witness ==
    \E t \in Threads :
        /\ exec[t].command_string = <<TRIGGER, "HELP", "p", "x">>
        /\ exec[t].status = "returned"
        /\ exec[t].result = StrReply(<<"help", "x">>)
        /\ session_exists(sessions, NetworkId, exec[t].source.host)
        /\ Users[session_get(sessions, NetworkId, exec[t].source.host).user_id].is_admin

\* thread t has dispatched the command string and is through with it
Dispatched(t, text) ==
    /\ req[t].text = text
    /\ exec[t].command_string = text
    /\ pc[t] \in {"done", "crashed"}

\* C15: a login command that supplies fewer positional arguments than the two
\* placeholders of its `Syntax:` line fails with NotEnoughArgumentsError and
\* command_login is never invoked.
C15_MinimumArguments ==
    \A t \in Threads :
        (Dispatched(t, req[t].text) /\ exec[t].plugin = "auth" /\ exec[t].command = "login"
              /\ Len(exec[t].args) < login_min_args)
            => /\ exec[t].invoked = <<>>
               /\ exec[t].status = "raised"
               /\ exec[t].exc.name = "NotEnoughArgumentsError"

\* a login command from a source without a session, in a public channel
PublicLogin(t) ==
    /\ Dispatched(t, <<TRIGGER, "auth", "login", "me", "secret">>)
    /\ req[t].public
    /\ ~exec[t].authed

\* exactly one reply went to the wire for thread t, the refusal
OneRefusal(t) ==
    /\ pc[t] = "done"
    /\ Len(ThreadWire(t)) = 1
    /\ ThreadWire(t)[1].message = <<req[t].source.nick, "you can't run this command in public channels">>
    /\ ThreadWire(t)[1].destination = ChannelName

\* C17 as stated: a public login command from a source without a session
\* yields exactly one reply, the refusal, and the authentication store is
\* never touched during the dispatch: no session lookup, no login attempt, no
\* session created.
C17_StoreNeverTouched ==
    \A t \in Threads :
        PublicLogin(t)
            => /\ OneRefusal(t)
               /\ ~exec[t].gate
               /\ auth[t] = NoAuth

\* C17 amended: a public login command from a source without a session yields
\* exactly one reply, the refusal; no login attempt is made and no session is
\* created, the one access to the store being the session lookup of the
\* authentication gate of execute().
C17_PublicLoginRefused ==
    \A t \in Threads :
        PublicLogin(t)
            => /\ OneRefusal(t)
               /\ exec[t].gate
               /\ exec[t].invoked = <<public_prefix>>
               /\ auth[t] = NoAuth
               /\ ~session_exists(sessions, NetworkId, req[t].source.host)

C17_Witness ==
    \E t \in Threads :
        /\ PublicLogin(t)
        /\ OneRefusal(t)
        /\ auth[t] = NoAuth

\* the words of a command string
Words(text) == {text[i] : i \in 1..Len(text)}

\* C16: two command strings that differ in their positional arguments only
\* are filtered to the same string, and no positional argument of a command
\* string occurs in its filtered form; valid commands, help requests and
\* commands naming an unloaded plugin alike.
C16_RedactionArgumentIndependent ==
    /\ \A a, b \in logged :
          a.head = b.head => a.result.command_string = b.result.command_string
    /\ \A a \in logged :
          Words(a.args) \cap Words(a.result.command_string) = {}

\* the reply at position i of thread t's deliver() call is routed to COMMAND
CommandAt(t, i) == calls[t][i].type = "tuple" /\ calls[t][i].tag = COMMAND

\* C18: when the execute() call of a _fire_command raised, the exception
\* stays there: the thread goes on, nothing is on the wire for the command
\* reply, and once deliver() is over the replies after it were sent.
C18_FailedRecursionDropped ==
    \A t \in Threads :
        fired[t].status = "raised" =>
            /\ pc[t] \in {"deliver", "done"}
            /\ \A j \in 1..Len(ThreadWire(t)) :
                  /\ Len(ThreadWire(t)[j].path) = 1
                  /\ ~CommandAt(t, ThreadWire(t)[j].path[1])
            /\ pc[t] = "done" =>
                  \A i \in 1..Len(calls[t]) :
                     ~CommandAt(t, i) => \E j \in 1..Len(ThreadWire(t)) : ThreadWire(t)[j].path = <<i>>

C18_Witness ==
    \E t \in Threads :
        /\ fired[t].status = "raised"
        /\ pc[t] = "done"
        /\ \E i, k \in 1..Len(calls[t]) :
              /\ i < k
              /\ CommandAt(t, i)
              /\ \E j \in 1..Len(ThreadWire(t)) : ThreadWire(t)[j].path = <<k>>

\* C19: an event() call on a text that starts with the command trigger
\* invokes no event handler, and a thread that ran execute() on its message
\* invokes no event handler for it.
C19_EventGuard ==
    \A t \in Threads :
        /\ (evt[t].status # "none" /\ Len(req[t].text) > 1 /\ req[t].text[1] = TRIGGER)
              => (evt[t].status = "skipped" /\ evt[t].invoked = <<>>)
        /\ exec[t].status # "none" => evt[t].invoked = <<>>

C19_Witness ==
    \E t \in Threads :
        /\ exec[t].status = "returned"
        /\ evt[t].status = "skipped"
        /\ Listeners(evt[t].event_name) # <<>>

\* the k-th smallest element of a set of numbers
Nth(S, k) == CHOOSE i \in S : Cardinality({j \in S : j < i}) = k - 1

\* the positions of the handlers that returned a non-empty reply
Repliers(outs) == {i \in 1..Len(outs) : outs[i].kind = "return" /\ Truthy(outs[i].reply)}

\* C20: the list event() returns has one entry per handler that returned a
\* non-empty reply, the k-th entry being the reply of the k-th such handler in
\* plugin iteration order; only loaded plugins with a handler for the event
\* are among the handlers.
C20_EventReplyCollection ==
    \A t \in Threads :
        evt[t].status = "returned" =>
            /\ Len(evt[t].replies) = Cardinality(Repliers(evt[t].outs))
            /\ \A k \in 1..Len(evt[t].replies) :
                  evt[t].replies[k] = evt[t].outs[Nth(Repliers(evt[t].outs), k)].reply
            /\ \A i \in 1..Len(evt[t].invoked) :
                  /\ is_loaded(plugins, evt[t].invoked[i])
                  /\ evt[t].event_name \in plugins[evt[t].invoked[i]].event_classes
            /\ \A i, j \in 1..Len(evt[t].invoked) :
                  i < j => \E a, b \in 1..Len(PluginOrder) :
                              a < b /\ PluginOrder[a] = evt[t].invoked[i] /\ PluginOrder[b] = evt[t].invoked[j]

C20_Witness ==
    \E t \in Threads :
        /\ evt[t].status = "returned"
        /\ Len(evt[t].outs) = 2
        /\ evt[t].replies = <<evt[t].outs[1].reply, evt[t].outs[2].reply>>
        /\ evt[t].outs[1].reply # evt[t].outs[2].reply

\* a command handler or an event handler of thread t raised an exception
SomeHandlerRaised(t) ==
    \/ exec[t].caller = "_handle_message" /\ HandlerRaised(exec[t], CommandErrors \cup {"ValidationError", "Exception"})
    \/ \E i \in 1..Len(evt[t].outs) : evt[t].outs[i].kind = "raise"

\* C21: a dispatch in which a command handler or an event handler raised
\* (any CommandError subclass, a ValidationError or any other exception) ends
\* with a reply to the user on the wire; only an unloaded plugin ends a
\* dispatch with nothing sent.
C21_OnlyUnloadedSilent ==
    \A t \in Threads :
        (pc[t] \in {"done", "crashed"} /\ SomeHandlerRaised(t)) => ThreadWire(t) # <<>>

\* ------------------------------------------------- properties of the parser
HelpWords == {"help", "HELP"}

\* C22: a command string whose first or second token is `help` (in any case),
\* the other of the two naming a loaded plugin, is a help request: the parser
\* says so, and what comes back is the help entry the request asks for, the
\* same for `p help x` as for `help p x`.
C22_HelpTokenPosition ==
    LET w == parsing.args
    IN  /\ (parsing.status = "parsed" /\ parsing.raised = "" /\ Len(w) >= 1 /\ w[1] \in HelpWords)
              => (parsing.help_command /\ Truthy(parsing.help))
        /\ (parsing.status = "parsed" /\ Len(w) >= 2 /\ w[2] \in HelpWords /\ w[1] \notin HelpWords
                /\ is_loaded(plugins, Lower(w[1])))
              => LET first == _parse_command_arguments(plugins, <<w[2], w[1]>> \o SubSeq(w, 3, Len(w)))
                 IN  /\ parsing.help_command
                     /\ parsing.help = _help_execute(plugins, first.plugin, first.command)

C24_MatchedTokensConsumed ==
    (parsing.status = "parsed" /\ parsing.raised = "") =>
        LET w   == IF parsing.help_command THEN Tail(parsing.args) ELSE parsing.args
            sub == IF Len(w) >= 2 THEN Lower(w[1]) \o "." \o Lower(w[2]) ELSE "None"
            two == Len(w) >= 2 /\ is_loaded(plugins, sub)
            k   == IF two THEN 2 ELSE 1
        IN  /\ parsing.plugin = IF two THEN sub ELSE Lower(w[1])
            /\ parsing.command = IF Len(w) > k THEN w[k + 1] ELSE "None"
            /\ parsing.rest = SubSeq(w, k + 2, Len(w))

\* str.lower(), character by character
LowerChar(c) ==
    CASE c = "P" -> "p"
      [] c = "H" -> "h"
      [] c = "E" -> "e"
      [] c = "L" -> "l"
      [] c = "V" -> "v"
      [] OTHER   -> c

LowerChars(chars) == [i \in 1..Len(chars) |-> LowerChar(chars[i])]

\* short_opt_pattern ^\-([a-zA-Z])$ read on the characters of a token
IsShortOpt(tok) == Len(tok) = 2 /\ tok[1] = "-" /\ tok[2] \in Letters

\* long_opt_pattern ^\-\-([a-zA-Z]*)="?(.+)"?$ read on the characters of a
\* token that has no quote: the position of its '=' (0 when it does not match)
LongOptAt(tok) ==
    IF /\ Len(tok) >= 4 /\ tok[1] = "-" /\ tok[2] = "-"
       /\ \E k \in 3..(Len(tok) - 1) : tok[k] = "=" /\ \A j \in 3..(k - 1) : tok[j] \in Letters
    THEN CHOOSE k \in 3..(Len(tok) - 1) : tok[k] = "=" /\ \A j \in 3..(k - 1) : tok[j] \in Letters
    ELSE 0

IsLongOpt(tok) == LongOptAt(tok) # 0
IsOpt(tok) == IsShortOpt(tok) \/ IsLongOpt(tok)

\* the option name and the value a token gives it
OptName(tok) ==
    IF IsShortOpt(tok) THEN LowerChar(tok[2])
    ELSE Concat(LowerChars(SubSeq(tok, 3, LongOptAt(tok) - 1)))
OptValue(tok) ==
    IF IsShortOpt(tok) THEN "True"
    ELSE Concat(LowerChars(SubSeq(tok, LongOptAt(tok) + 1, Len(tok))))

\* the tokens that match neither option pattern, in order, as words
Positional(toks) ==
    LET plain == SelectSeq(toks, LAMBDA tok : ~IsOpt(tok))
    IN  [i \in 1..Len(plain) |-> Concat(plain[i])]

\* C25 as stated: every token -x leaves opts[lower(x)] = True, every token
\* --name=v leaves opts[lower(name)] = lower(v), and args is exactly the
\* tokens that match neither pattern, in their order.
C25_OptionParsing ==
    parsing.status = "parsed" =>
        /\ \A i \in 1..Len(parsing.split) :
              IsOpt(parsing.split[i])
                  => <<OptName(parsing.split[i]), OptValue(parsing.split[i])>> \in parsing.opts
        /\ parsing.args = Positional(parsing.split)

\* C25, amended: of the tokens that name the same option the last one
\* decides; opts has no other key; args is exactly the tokens that match
\* neither pattern, in their order.
C25_OptionParsingLastWins ==
    parsing.status = "parsed" =>
        LET toks == parsing.split
        IN  /\ \A i \in 1..Len(toks) :
                  (IsOpt(toks[i]) /\ \A j \in (i + 1)..Len(toks) :
                                        IsOpt(toks[j]) => OptName(toks[j]) # OptName(toks[i]))
                      => <<OptName(toks[i]), OptValue(toks[i])>> \in parsing.opts
            /\ \A o \in parsing.opts : \E i \in 1..Len(toks) : IsOpt(toks[i]) /\ OptName(toks[i]) = o[1]
            /\ \A o1, o2 \in parsing.opts : o1[1] = o2[1] => o1 = o2
            /\ parsing.args = Positional(toks)

C25_Witness ==
    /\ parsing.status = "parsed"
    /\ parsing.split = <<<<"-", "V">>, <<"x">>, <<"-", "-", "v", "=", "a">>>>
    /\ parsing.opts = {<<"v", "a">>}
    /\ parsing.args = <<"x">>

\* a token without quote that matches no option pattern
Plain(tok) == (\A i \in 1..Len(tok) : tok[i] # "\"") /\ ~IsOpt(tok)

PlainTokens == \A i \in 1..Len(parsing.tokens) : Plain(parsing.tokens[i])

\* the split the tokens were joined from: plugin, command, arguments
RoundTrip ==
    /\ parsing.raised = ""
    /\ parsing.plugin = Concat(parsing.tokens[1])
    /\ parsing.command = IF Len(parsing.tokens) >= 2 THEN Concat(parsing.tokens[2]) ELSE "None"
    /\ parsing.rest = [i \in 1..(Len(parsing.tokens) - 2) |-> Concat(parsing.tokens[i + 2])]

SubPluginNamed ==
    /\ Len(parsing.tokens) >= 2
    /\ is_loaded(plugins, Concat(LowerChars(parsing.tokens[1])) \o "." \o Concat(LowerChars(parsing.tokens[2])))

WhoisEnded(c) == c \in whois.bound /\ whois.called[c] # <<>>

\* C27: once the end-of-WHOIS event of a binding has arrived, its callback
\* has been called exactly once, neither of its two handlers is registered
\* any more and its buffer is empty, whoisuser lines having arrived or not.
C27_WhoisCleanup ==
    \A c \in Commands :
        WhoisEnded(c) =>
            /\ Len(whois.called[c]) = 1
            /\ \A i \in 1..Len(whois.handlers) : whois.handlers[i].command # c
            /\ whois.buffer[c] = <<>>

\* C28: no message handed to privmsg, notice or action holds a carriage
\* return or a line feed, also when the reply text had line breaks or an
\* entity that un-escapes to one.
C28_NoLineBreaksOnWire ==
    \A j \in 1..Len(wire) :
        /\ wire[j].handler \in Primitives
        /\ \A k \in 1..Len(wire[j].message) : wire[j].message[k] \notin {"\n", "\r"}

C28_Witness ==
    \E t \in Threads :
        /\ route[t].response.type = "str"
        /\ \E k \in 1..Len(route[t].response.text) : route[t].response.text[k] = "&#10;"
        /\ \E k \in 1..Len(route[t].response.text) : route[t].response.text[k] = "\n"
        /\ ThreadWire(t) # <<>>
        /\ Last(ThreadWire(t)).message = <<IRC_BOLD, "b">>

\* thread t is past the branch of _handle_message
Handled(t) ==
    /\ req[t].command_event \in {EVENT_PUBMSG, EVENT_PRIVMSG, EVENT_PUBACTION, EVENT_PRIVACTION}
    /\ pc[t] \notin {"idle", "handle"}

\* _handle_message asked the command executor / the language engine
ExecutorAsked(t) == exec[t].status # "none" /\ exec[t].caller = "_handle_message"
LanguageAsked(t) == lang[t].status = "asked"

\* the text starts with the trigger followed by a letter
StartsWithTrigger(text) ==
    Len(text) >= 2 /\ text[1] = TRIGGER /\ text[2] \in {"p", "P", "zz", "HELP"}

\* C29 as stated: for every message _handle_message is given, exactly one
\* of the executor and the language engine is asked, the executor if and
\* only if the text matches the trigger pattern.
C29_ExactlyOneAsked ==
    \A t \in Threads :
        Handled(t) =>
            /\ ExecutorAsked(t) # LanguageAsked(t)
            /\ ExecutorAsked(t) <=> StartsWithTrigger(req[t].text)

\* C29, amended: the same for a message of a client that is not on the
\* ignore list; for a client on the ignore list neither is asked.
C29_ExactlyOneAskedUnlessIgnored ==
    \A t \in Threads :
        Handled(t) =>
            IF ignore_exists(ignore_list, req[t].source)
            THEN ~ExecutorAsked(t) /\ ~LanguageAsked(t)
            ELSE /\ ExecutorAsked(t) # LanguageAsked(t)
                 /\ ExecutorAsked(t) <=> StartsWithTrigger(req[t].text)

C29_Witness ==
    \E t \in Threads :
        /\ Handled(t)
        /\ ignore_list.hosts # {}
        /\ ~ignore_exists(ignore_list, req[t].source)
        /\ ExecutorAsked(t)
        /\ ~LanguageAsked(t)
        /\ pc[t] = "done"

\* _fire_plugin_event runs for the quit event of the source
QuitBroadcast(source) ==
    \/ \E t \in Threads :
          /\ req[t].command_event = EVENT_QUIT
          /\ req[t].source = source
          /\ pc[t] \in {"event", "deliver", "done"}
    \/ \E th \in quits.threads : th.source = source /\ th.started

\* C30: every quit event the bot receives is eventually followed by the
\* broadcast of on_quit to the plugins.
C30_QuitReachesPlugins ==
    \A source \in Sources : (source \in quits.received) ~> QuitBroadcast(source)

RECURSIVE SessionsOutside(_, _, _)
\* the rows a query filtered by network_id and hostmask does not select
SessionsOutside(rows, network, hostmask) ==
    IF rows = <<>> THEN <<>>
    ELSE LET rest == SessionsOutside(Tail(rows), network, hostmask)
         IN  IF Head(rows).network_id = network /\ Head(rows).hostmask = hostmask
             THEN rest ELSE <<Head(rows)>> \o rest

\* C31: the session.destroy(network, hostmask) of Auth.logout removes the
\* sessions of that network and hostmask and leaves every other session in
\* the store.
C31_DestroyScoped ==
    [][\A t \in Threads :
          (auth[t].op = "logout" /\ auth[t].at = "checked" /\ auth'[t].at = "done")
              => sessions' = SessionsOutside(sessions, NetworkId, auth[t].hostmask)]_vars

\* C32: an untagged reply an event handler returned for a private event is
\* delivered to the sender's nick, never to the channel.
C32_PrivateEventRepliesPrivate ==
    \A t \in Threads :
        (evt[t].status = "returned" /\ ~req[t].public /\ Routed(t) /\ route[t].response.type = "str")
            => /\ route[t].destination = req[t].source.nick
               /\ route[t].destination # ChannelName

RECURSIVE Flattened(_)
\* the replies with every list among them replaced by its elements
Flattened(replies) ==
    IF replies = <<>> THEN <<>>
    ELSE (IF Head(replies).type = "list" THEN Head(replies).items ELSE <<Head(replies)>>)
         \o Flattened(Tail(replies))

\* C34: when the event broadcast is delivered, every element of a list an
\* event handler returned is sent as its own wire message, in list order,
\* with the handler its tag names and to the destination its tag names.
C34_EventListsByElement ==
    \A t \in Threads :
        (evt[t].status = "returned" /\ pc[t] = "done") =>
            LET sent == ThreadWire(t)
                flat == Flattened(evt[t].replies)
            IN  /\ Len(sent) = Len(flat)
                /\ \A k \in 1..Len(flat) :
                      /\ sent[k].handler = _get_handler(flat[k])
                      /\ sent[k].message = _parse_response_message(flat[k])
                      /\ flat[k].type = "tuple"
                            => sent[k].destination = _get_destination(flat[k], req[t].source, ChannelName, TRUE)

\* C33: deliver() sends nothing for a None reply, whether None is the whole
\* reply or an element of the reply list: no wire message stands for a
\* position of the reply list that holds None.
C33_NoneNeverSent ==
    \A i \in DOMAIN wire :
        LET w == wire[i]
        IN  Len(w.path) = 1 => calls[w.thread][w.path[1]].type # "none"

\* the reply of the execute() call of thread t is a command-tagged reply that
\* names the command that returned it
RepliesItself(t) ==
    /\ exec[t].caller = "_handle_message"
    /\ exec[t].status = "returned"
    /\ exec[t].invoked # <<>>
    /\ exec[t].result.type = "tuple"
    /\ exec[t].result.tag = COMMAND
    /\ LET again == _parse_command_arguments(plugins, _parse_command_string(exec[t].result.text).args)
       IN  /\ again.raised = ""
           /\ ~again.help_command
           /\ Lower(again.plugin) = Lower(exec[t].plugin)
           /\ again.command = exec[t].command

\* C35: nothing bounds the re-entry of execute() from deliver(): the
\* deliver() call for a command-tagged reply that names the command it came
\* from never completes.
C35_ReentryNeverCompletes ==
    \A t \in Threads : RepliesItself(t) => pc[t] # "done"

\* C36: with several WHOIS bindings outstanding on the connection, each
\* callback is called at most once, on the end-of-WHOIS line of its own
\* request, with the whoisuser lines of its own target only.
C36_WhoisBindingsDoNotCross ==
    \A c \in Commands :
        /\ Len(whois.called[c]) <= 1
        /\ \A k \in 1..Len(whois.called[c]) :
              LET call == whois.called[c][k]
              IN  /\ call.on[1] = whois.targets[c]
                  /\ \A j \in 1..Len(call.whois) : call.whois[j][1] = whois.targets[c]

\* C37: when auth.check has returned true at the gate of execute(), the
\* auth.user that follows returns the user: whatever another dispatch thread
\* does to the session in between, the gate never raises
\* NotAuthenticatedError.
C37_CheckThenUserConsistent ==
    \A t \in Threads :
        (auth[t].op = "gate" /\ auth[t].at = "done" /\ auth[t].existed)
            => /\ auth[t].raised = ""
               /\ auth[t].user \in DOMAIN Users

\* C39: after any sequence of add, delete, delete_by_id and clear the
\* in-memory lists of hosts and nicks hold exactly the entries of the
\* database table, so that synchronize() would change nothing.
C39_CacheMatchesDatabase ==
    /\ ignore_list.hosts = {r.source : r \in {x \in ignore_list.db : x.mask = HOST}}
    /\ ignore_list.nicks = {r.source : r \in {x \in ignore_list.db : x.mask = NICK}}

\* the host of the client, or its nick in lower case, is on the ignore list
OnIgnoreList(source) ==
    \/ \E r \in ignore_list.db : r.mask = HOST /\ r.source = source.host
    \/ \E r \in ignore_list.db : r.mask = NICK /\ r.source = Lower(source.nick)

\* C38: a message or an action of a client whose host, or whose lower-cased
\* nick, is on the ignore list causes no command execution, no query of the
\* language engine, no wire delivery and no plugin event broadcast.
C38_IgnoredGetNothing ==
    \A t \in Threads :
        (Handled(t) /\ OnIgnoreList(req[t].source))
            => /\ exec[t] = NoExec
               /\ fired[t] = NoExec
               /\ lang[t] = NoLang
               /\ evt[t] = NoEvt
               /\ ThreadWire(t) = <<>>
               /\ pc[t] = "done"

C38_Witness ==
    \E t \in Threads :
        /\ Handled(t)
        /\ req[t].source.nick = "Bob"
        /\ req[t].source.host \notin ignore_list.hosts
        /\ "bob" \in ignore_list.nicks
        /\ pc[t] = "done"
        /\ wire = <<>>

\* C40: on_action dispatches an action whose target is the bot's nickname
\* with public = false and EVENT_PRIVACTION, and an action whose target is
\* the channel with public = true and EVENT_PUBACTION.
C40_PrivateActionsPrivate ==
    \A t \in Threads :
        req[t].command_event \in {EVENT_PUBACTION, EVENT_PRIVACTION} =>
            IF req[t].target = Nickname
            THEN ~req[t].public /\ req[t].command_event = EVENT_PRIVACTION
            ELSE req[t].public /\ req[t].command_event = EVENT_PUBACTION

====
